---- MODULE Spec2Model ----
(***************************************************************************)
(* Model of the IoCreateDevice dispatch-analysis pipeline                  *)
(* (src/pipeline.py and the step modules under src/examples/).             *)
(*                                                                         *)
(* Text is modelled as a sequence of tokens.  A token is one lexical unit  *)
(* of a backend reply: a prose word, a blank, a bracket, a brace, a code   *)
(* fence, a JSON scalar, a quote or an object member.  json.loads, the     *)
(* fenced-block regular expression and str.find/rfind are computed on the  *)
(* token sequence the way the Python code computes them on characters.     *)
(***************************************************************************)
EXTENDS Integers, Sequences, FiniteSets, TLC

VARIABLES
    responses,      \* extractor under test: the role-tagged messages handed to it
    extractor,      \* which extractor was applied ("idle" before the call)
    extracted,      \* its outcome: [done, out]
    entries,        \* dedupe_functions under test: its argument
    deduped,        \* its result: [done, val]
    cache_file,     \* the lines of CACHE_PATH (external_function_cache.jsonl)
    last_call,      \* the last describe call: [done, type, entry, out, submitted, known]
    first_md,       \* history: per lowercased name, the markdown of its first description
    passed,         \* history: per lowercased name, the addresses of the calls that
                    \* returned, each once, in first-seen order
    executions,     \* describe_external_function executions that share the store:
                    \* per execution [pc, entry, cache, wrote, overlap]
    pc,             \* main(): the step the run is at
    attempt,        \* find_iocreatedevice_refs: the loop variable of its retry loop
    call,           \* the step function called last: [fn, submits, slept, printed, status, error, attempts]
    callers,        \* main(): the deduplicated discovery result
    idx,            \* main(): position in callers (from 1)
    handler,        \* main(): the handler resolved for callers[idx]
    children,       \* process_major_function: the enumerated children
    child_idx,      \* process_major_function: position in children (from 1)
    pending,        \* describe_child: the description waiting for its memory analysis
    child_sections, \* process_major_function: sections of the children described so far
    child_mem_codes, \* process_major_function: memory-parameter code of the children
    child_block,    \* process_major_function: the child-description block
    parent_mem_md,  \* process_major_function: the parent's memory-parameter markdown
    combined_context, \* process_major_function: context handed to the IRP analysis
    irp_md,         \* process_major_function: markdown of the IRP analysis
    irp_transcripts, \* process_major_function: transcript sink of the IRP analysis
    origins,        \* history: the positions in children of the children that
                    \* produced each section and each code excerpt, and of those
                    \* whose description triggered the memory-parameter analysis
    reports,        \* main(): the caller sections appended so far
    all_transcripts, \* main(): transcripts of all callers
    all_mem_codes,  \* main(): memory-parameter code of all callers
    deep_reasoning_md, \* main(): result of run_deep_reasoning
    report_file,    \* the report file write_result_report writes
    progress,       \* history: per caller that reached enumeration, whether the
                    \* enumeration raised and the sections its children produced
    resolved,       \* history: per caller main() has taken up, whether its handler
                    \* was resolved
    collected,      \* history: the number of code excerpts the memory-parameter
                    \* side path has produced in the run
    log_file,       \* the records of LOG_FILE_NAME (logs.txt)
    stream_pc,      \* run_deep_reasoning: where the call is
    environment,    \* run_deep_reasoning: its arguments and what it finds installed
    stream,         \* run_deep_reasoning: the chunks the stream has not delivered yet
    consumed,       \* history: the chunks the loop has processed, in arrival order
    is_answering,   \* run_deep_reasoning: the first answer fragment has arrived
    reasoning_parts, \* run_deep_reasoning: the reasoning accumulator
    answer_parts,   \* run_deep_reasoning: the answer accumulator
    echoed,         \* what the loop has printed, in order
    requests,       \* requests sent to the reasoning backend
    stream_result         \* run_deep_reasoning: what it returned, [returned, val]

extract_vars == <<responses, extractor, extracted>>
dedupe_vars == <<entries, deduped>>
cache_vars == <<cache_file, last_call, first_md, passed, executions>>
frame_vars ==
    <<handler, children, child_idx, pending, child_sections, child_mem_codes,
      child_block, parent_mem_md, combined_context, irp_md, irp_transcripts,
      origins>>
out_vars ==
    <<reports, all_transcripts, all_mem_codes, deep_reasoning_md, report_file>>
run_vars == <<callers, idx, out_vars>>
stream_vars ==
    <<stream_pc, environment, stream, consumed, is_answering, reasoning_parts,
      answer_parts, echoed, requests, stream_result>>
other_vars == <<extract_vars, dedupe_vars, cache_vars, stream_vars>>
aux_vars == <<resolved, collected, log_file>>
pipeline_vars == <<pc, attempt, call, frame_vars, run_vars, progress, aux_vars>>
vars == <<extract_vars, dedupe_vars, cache_vars, pipeline_vars, stream_vars>>

-----------------------------------------------------------------------------
(* Bounds *)

\* longest reply text enumerated exhaustively (single-message inputs)
MaxTextLen == 3
\* longest message list enumerated (over the sample texts)
MaxMsgs == 3

-----------------------------------------------------------------------------
(* Tokens and texts *)

\* JSON scalars
Atoms == {"1", "2"}
\* object members: the token k stands for the member  "k": <scalar>;
\* "new_name" is the member "new_name": "IoControlCode", "new_name_other" the
\* same key with any other value
Members == {"address", "func_name", "old_name", "new_name", "new_name_other", "a"}
\* everything a reply can be made of; "<fence>" is a line of three backquotes,
\* "<fence>json" the same followed by the word json
Tokens == {"x", " ", "[", "]", "{", "}", "<fence>", "<fence>json", "q"} \cup Atoms \cup Members
\* the tokens enumerated exhaustively
BaseTokens == {"x", " ", "[", "]", "{", "}", "<fence>", "1", "address", "func_name"}

Min(S) == CHOOSE m \in S : \A n \in S : m <= n
Max(S) == CHOOSE m \in S : \A n \in S : m >= n

SeqsUpTo(S, n) == UNION {[1..k -> S] : k \in 0..n}

Range(s) == {s[i] : i \in 1..Len(s)}

RECURSIVE lstrip(_)
lstrip(raw) ==
    IF raw # <<>> /\ Head(raw) = " " THEN lstrip(Tail(raw)) ELSE raw

RECURSIVE rstrip(_)
rstrip(raw) ==
    IF raw # <<>> /\ raw[Len(raw)] = " "
    THEN rstrip(SubSeq(raw, 1, Len(raw) - 1))
    ELSE raw

\* str.strip()
strip(raw) == rstrip(lstrip(raw))

RECURSIVE skip_ws(_, _)
skip_ws(t, i) ==
    IF i <= Len(t) /\ t[i] = " " THEN skip_ws(t, i + 1) ELSE i

-----------------------------------------------------------------------------
(* json.loads on a token sequence.                                         *)
(*   value  ::=  atom | q token* q | "[" value* "]" | "{" member* "}"      *)
(* Blanks are allowed between tokens; separators are implicit.  scan_value *)
(* returns the index after the value that starts at i, or 0 when there is  *)
(* none.                                                                   *)

close_quote(t, j) ==
    LET K == {k \in (j + 1)..Len(t) : t[k] = "q"}
    IN  IF K = {} THEN 0 ELSE Min(K)

RECURSIVE scan_members(_, _)
scan_members(t, i) ==
    LET j == skip_ws(t, i)
    IN  IF j > Len(t) THEN 0
        ELSE IF t[j] = "}" THEN j + 1
        ELSE IF t[j] \in Members THEN scan_members(t, j + 1)
        ELSE 0

RECURSIVE scan_value(_, _)
RECURSIVE scan_items(_, _)
scan_value(t, i) ==
    LET j == skip_ws(t, i)
    IN  IF j > Len(t) THEN 0
        ELSE IF t[j] \in Atoms THEN j + 1
        ELSE IF t[j] = "q"
             THEN (IF close_quote(t, j) = 0 THEN 0 ELSE close_quote(t, j) + 1)
        ELSE IF t[j] = "[" THEN scan_items(t, j + 1)
        ELSE IF t[j] = "{" THEN scan_members(t, j + 1)
        ELSE 0

scan_items(t, i) ==
    LET j == skip_ws(t, i)
    IN  IF j > Len(t) THEN 0
        ELSE IF t[j] = "]" THEN j + 1
        ELSE LET k == scan_value(t, j)
             IN  IF k = 0 THEN 0 ELSE scan_items(t, k)

\* the parsed value is represented by its text without insignificant blanks
RECURSIVE canon_from(_, _, _)
canon_from(t, i, in_str) ==
    IF i > Len(t) THEN <<>>
    ELSE IF t[i] = "q" THEN <<"q">> \o canon_from(t, i + 1, ~in_str)
    ELSE IF t[i] = " " /\ ~in_str THEN canon_from(t, i + 1, in_str)
    ELSE <<t[i]>> \o canon_from(t, i + 1, in_str)

kind_of(tok) ==
    IF tok = "[" THEN "list"
    ELSE IF tok = "{" THEN "dict"
    ELSE IF tok = "q" THEN "str"
    ELSE "num"

JSONDecodeError == [ok |-> FALSE]

\* json.loads(text): [ok |-> FALSE] stands for json.JSONDecodeError
json_loads(text) ==
    LET e == scan_value(text, 1)
    IN  IF e # 0 /\ skip_ws(text, e) > Len(text)
        THEN [ok |-> TRUE,
              kind |-> kind_of(text[skip_ws(text, 1)]),
              val |-> canon_from(text, 1, FALSE)]
        ELSE JSONDecodeError

\* "key in parsed" / parsed.get(key) for a parsed object
has_key(parsed, key) == key \in Range(parsed.val)

-----------------------------------------------------------------------------
(* Outcomes of a call *)

Return(v) == [raised |-> FALSE, val |-> v]
Raise(e) == [raised |-> TRUE, err |-> e]

\* [resp.get("content", "") for resp in responses if resp.get("role") == "assistant"]
RECURSIVE assistant_contents(_)
assistant_contents(resps) ==
    IF resps = <<>> THEN <<>>
    ELSE IF Head(resps).role = "assistant"
         THEN <<Head(resps).content>> \o assistant_contents(Tail(resps))
         ELSE assistant_contents(Tail(resps))

-----------------------------------------------------------------------------
(* find_iocreatedevice_refs.py: the array extractor of discover-callers *)

None == [ok |-> FALSE]

load_json_array(text) ==
    LET parsed == json_loads(text)
    IN  IF parsed.ok /\ parsed.kind = "list"
        THEN [ok |-> TRUE, val |-> parsed.val]
        ELSE None

is_fence(tok) == tok \in {"<fence>", "<fence>json"}

\* the "]" that ends the non-greedy group opened by the "[" at j: the first "]"
\* followed by optional blanks and a fence
block_end(t, j) ==
    LET K == {k \in (j + 1)..Len(t) :
                /\ t[k] = "]"
                /\ skip_ws(t, k + 1) <= Len(t)
                /\ is_fence(t[skip_ws(t, k + 1)])}
    IN  IF K = {} THEN 0 ELSE Min(K)

\* JSON_BLOCK_RE.findall(raw): the groups of the non-overlapping matches, left to right
RECURSIVE json_block_findall(_, _)
json_block_findall(t, i) ==
    IF i > Len(t) THEN <<>>
    ELSE LET j == skip_ws(t, i + 1)
             opens == is_fence(t[i]) /\ j <= Len(t) /\ t[j] = "["
             k == IF opens THEN block_end(t, j) ELSE 0
         IN  IF k = 0
             THEN json_block_findall(t, i + 1)
             ELSE <<SubSeq(t, j, k)>> \o json_block_findall(t, skip_ws(t, k + 1) + 1)

\* the first block that loads as an array
RECURSIVE first_array_block(_)
first_array_block(blocks) ==
    IF blocks = <<>> THEN None
    ELSE IF load_json_array(Head(blocks)).ok THEN load_json_array(Head(blocks))
    ELSE first_array_block(Tail(blocks))

\* raw.find(ch) / raw.rfind(ch); 0 stands for -1
find(raw, ch) ==
    LET K == {k \in 1..Len(raw) : raw[k] = ch} IN IF K = {} THEN 0 ELSE Min(K)
rfind(raw, ch) ==
    LET K == {k \in 1..Len(raw) : raw[k] = ch} IN IF K = {} THEN 0 ELSE Max(K)

bracket_slice(raw) ==
    LET first == find(raw, "[")
        last == rfind(raw, "]")
    IN  IF first # 0 /\ last # 0 /\ last > first
        THEN load_json_array(SubSeq(raw, first, last))
        ELSE None

\* variant of find_extract_loop that tries the bracket slice before the fenced blocks
RECURSIVE find_extract_loop_slice_first(_, _)
find_extract_loop_slice_first(contents, i) ==
    IF i = 0 THEN Raise("RuntimeError")
    ELSE LET raw == strip(contents[i])
         IN  IF raw = <<>> THEN find_extract_loop_slice_first(contents, i - 1)
             ELSE IF load_json_array(raw).ok THEN Return(load_json_array(raw).val)
             ELSE IF bracket_slice(raw).ok THEN Return(bracket_slice(raw).val)
             ELSE IF first_array_block(json_block_findall(raw, 1)).ok
                  THEN Return(first_array_block(json_block_findall(raw, 1)).val)
             ELSE find_extract_loop_slice_first(contents, i - 1)

RECURSIVE find_extract_loop(_, _)
find_extract_loop(contents, i) ==
    IF i = 0 THEN Raise("RuntimeError")
    ELSE LET raw == strip(contents[i])
         IN  IF raw = <<>> THEN find_extract_loop(contents, i - 1)
             ELSE IF load_json_array(raw).ok THEN Return(load_json_array(raw).val)
             ELSE IF first_array_block(json_block_findall(raw, 1)).ok
                  THEN Return(first_array_block(json_block_findall(raw, 1)).val)
             ELSE IF bracket_slice(raw).ok THEN Return(bracket_slice(raw).val)
             ELSE find_extract_loop(contents, i - 1)

find_extract_json_result(resps) ==
    find_extract_loop(assistant_contents(resps), Len(assistant_contents(resps)))

-----------------------------------------------------------------------------
(* list_subfunctions.py: the array extractor of enumerate-children *)

\* variant of extract_array_loop that walks the assistant messages oldest first
RECURSIVE extract_array_loop_forward(_, _)
extract_array_loop_forward(contents, i) ==
    LET n == Len(contents) + 1 - i
    IN  IF i = 0 THEN Raise("RuntimeError")
        ELSE IF ~json_loads(contents[n]).ok
             THEN extract_array_loop_forward(contents, i - 1)
        ELSE IF json_loads(contents[n]).kind = "list"
             THEN Return(json_loads(contents[n]).val)
        ELSE extract_array_loop_forward(contents, i - 1)

RECURSIVE extract_array_loop(_, _)
extract_array_loop(contents, i) ==
    IF i = 0 THEN Raise("RuntimeError")
    ELSE LET parsed == json_loads(contents[i])
         IN  IF ~parsed.ok THEN extract_array_loop(contents, i - 1)
             ELSE IF parsed.kind = "list" THEN Return(parsed.val)
             ELSE extract_array_loop(contents, i - 1)

extract_json_array(resps) ==
    extract_array_loop(assistant_contents(resps), Len(assistant_contents(resps)))

-----------------------------------------------------------------------------
(* analyze_major_function.py: the object extractor of resolve-handler *)

\* variant of extract_object_loop that passes over an object lacking a key and
\* goes on to the earlier messages
RECURSIVE extract_object_loop_fallback(_, _)
extract_object_loop_fallback(contents, i) ==
    IF i = 0 THEN Raise("RuntimeError")
    ELSE LET parsed == json_loads(contents[i])
         IN  IF ~parsed.ok THEN extract_object_loop_fallback(contents, i - 1)
             ELSE IF parsed.kind = "dict"
                     /\ has_key(parsed, "address") /\ has_key(parsed, "func_name")
                  THEN Return(parsed.val)
             ELSE extract_object_loop_fallback(contents, i - 1)

RECURSIVE extract_object_loop(_, _)
extract_object_loop(contents, i) ==
    IF i = 0 THEN Raise("RuntimeError")
    ELSE LET parsed == json_loads(contents[i])
         IN  IF ~parsed.ok THEN extract_object_loop(contents, i - 1)
             ELSE IF parsed.kind = "dict"
                  THEN (IF has_key(parsed, "address") /\ has_key(parsed, "func_name")
                        THEN Return(parsed.val)
                        ELSE Raise("RuntimeError"))
             ELSE extract_object_loop(contents, i - 1)

extract_json_object(resps) ==
    extract_object_loop(assistant_contents(resps), Len(assistant_contents(resps)))

-----------------------------------------------------------------------------
(* analyze_memory_param.py: the object extractor of analyze-memory-parameters *)

\* variant of extract_json_loop that falls back to the text between the first
\* opening and the last closing brace
RECURSIVE extract_json_loop_brace_slice(_, _)
extract_json_loop_brace_slice(contents, i) ==
    IF i = 0 THEN Raise("RuntimeError")
    ELSE LET raw == contents[i]
             first == find(raw, "{")
             last == rfind(raw, "}")
             parsed == IF json_loads(raw).ok \/ first = 0 \/ last <= first
                       THEN json_loads(raw)
                       ELSE json_loads(SubSeq(raw, first, last))
         IN  IF ~parsed.ok THEN extract_json_loop_brace_slice(contents, i - 1)
             ELSE IF parsed.kind = "dict" THEN Return(parsed.val)
             ELSE extract_json_loop_brace_slice(contents, i - 1)

RECURSIVE extract_json_loop(_, _)
extract_json_loop(contents, i) ==
    IF i = 0 THEN Raise("RuntimeError")
    ELSE LET parsed == json_loads(contents[i])
         IN  IF ~parsed.ok THEN extract_json_loop(contents, i - 1)
             ELSE IF parsed.kind = "dict" THEN Return(parsed.val)
             ELSE extract_json_loop(contents, i - 1)

extract_json(resps) ==
    extract_json_loop(assistant_contents(resps), Len(assistant_contents(resps)))

-----------------------------------------------------------------------------
(* rename_iocontrol_code.py: the object extractor of the rename step *)

RECURSIVE rename_extract_loop(_, _)
rename_extract_loop(contents, i) ==
    IF i = 0 THEN Raise("RuntimeError")
    ELSE LET parsed == json_loads(contents[i])
         IN  IF ~parsed.ok THEN rename_extract_loop(contents, i - 1)
             ELSE IF parsed.kind = "dict"
                  THEN (IF /\ has_key(parsed, "address")
                           /\ has_key(parsed, "func_name")
                           /\ has_key(parsed, "old_name")
                           /\ has_key(parsed, "new_name")
                        THEN Return(parsed.val)
                        ELSE Raise("RuntimeError"))
             ELSE rename_extract_loop(contents, i - 1)

rename_extract_json_result(resps) ==
    rename_extract_loop(assistant_contents(resps), Len(assistant_contents(resps)))

-----------------------------------------------------------------------------
(* define_driver_dispatch.py: the object extractor of the prototype step *)

RECURSIVE define_extract_loop(_, _)
define_extract_loop(contents, i) ==
    IF i = 0 THEN Raise("RuntimeError")
    ELSE LET raw == strip(contents[i])
         IN  IF raw = <<>> THEN define_extract_loop(contents, i - 1)
             ELSE IF ~json_loads(raw).ok THEN define_extract_loop(contents, i - 1)
             ELSE IF json_loads(raw).kind = "dict" THEN Return(json_loads(raw).val)
             ELSE define_extract_loop(contents, i - 1)

define_extract_json_result(resps) ==
    define_extract_loop(assistant_contents(resps), Len(assistant_contents(resps)))

-----------------------------------------------------------------------------
(* describe_*_function.py, analyze_irp_memory_access.py: the prose extractor *)

\* variant of extract_markdown that returns the first assistant message
extract_markdown_first(resps) ==
    IF assistant_contents(resps) = <<>>
    THEN Raise("RuntimeError")
    ELSE Return(strip(assistant_contents(resps)[1]))

extract_markdown(resps) ==
    IF assistant_contents(resps) = <<>>
    THEN Raise("RuntimeError")
    ELSE Return(strip(assistant_contents(resps)[Len(assistant_contents(resps))]))

-----------------------------------------------------------------------------
(* Python values *)

\* None: a value no string of the model equals
PyNone == "<None>"

\* dict.get(key): a dict is a function from the keys it holds
get(d, key) == IF key \in DOMAIN d THEN d[key] ELSE PyNone

\* "not value" for a str or None
falsy(value) == value = PyNone \/ value = ""

\* the names and addresses the backend may report; "F" is "f" in another case,
\* "0xA" is "0xa" in another case
NameValues == {"f", "F", "g", ""}
AddrValues == {"0xa", "0xA", "0xb"}

\* str.lower() on those
lower(str) ==
    IF str = "F" THEN "f"
    ELSE IF str = "0xA" THEN "0xa"
    ELSE str

-----------------------------------------------------------------------------
(* pipeline.py: dedupe_functions *)

\* variant of dedupe_loop whose key keeps the case of the name and the address
RECURSIVE dedupe_loop_case_sensitive(_, _, _, _, _)
dedupe_loop_case_sensitive(ents, i, seen, name_key, addr_key) ==
    IF i > Len(ents) THEN <<>>
    ELSE LET name == get(ents[i], name_key)
             addr == get(ents[i], addr_key)
             key == <<name, addr>>
         IN  IF falsy(name) \/ falsy(addr)
             THEN dedupe_loop_case_sensitive(ents, i + 1, seen, name_key, addr_key)
             ELSE IF key \in seen
             THEN dedupe_loop_case_sensitive(ents, i + 1, seen, name_key, addr_key)
             ELSE <<ents[i]>> \o
                  dedupe_loop_case_sensitive(ents, i + 1, seen \cup {key}, name_key, addr_key)

\* the for loop of dedupe_functions from entry i on, with the keys seen so far
RECURSIVE dedupe_loop(_, _, _, _, _)
dedupe_loop(ents, i, seen, name_key, addr_key) ==
    IF i > Len(ents) THEN <<>>
    ELSE LET name == get(ents[i], name_key)
             addr == get(ents[i], addr_key)
             key == <<lower(name), lower(addr)>>
         IN  IF falsy(name) \/ falsy(addr)
             THEN dedupe_loop(ents, i + 1, seen, name_key, addr_key)
             ELSE IF key \in seen
             THEN dedupe_loop(ents, i + 1, seen, name_key, addr_key)
             ELSE <<ents[i]>> \o dedupe_loop(ents, i + 1, seen \cup {key}, name_key, addr_key)

dedupe_functions(ents, name_key, addr_key) ==
    dedupe_loop(ents, 1, {}, name_key, addr_key)

-----------------------------------------------------------------------------
(* describe_external_function.py: the JSONL cache *)

\* one line of the file: json.dumps(record) + "\n".  A line that json.loads
\* rejects is [valid |-> FALSE].
json_line(record) == [valid |-> TRUE, record |-> record]

\* isinstance(value, dict): a JSON value that is no object is [scalar |-> ..]
is_dict(child) == "scalar" \notin DOMAIN child

\* OrderedDict as a sequence of [key, record] in insertion order
od_has(cache, key) == \E i \in 1..Len(cache) : cache[i].key = key
od_get(cache, key) == cache[CHOOSE i \in 1..Len(cache) : cache[i].key = key].record
od_set(cache, key, record) ==
    IF od_has(cache, key)
    THEN [i \in 1..Len(cache) |->
            IF cache[i].key = key THEN [key |-> key, record |-> record] ELSE cache[i]]
    ELSE Append(cache, [key |-> key, record |-> record])

RECURSIVE load_cache_from(_, _, _)
load_cache_from(file, i, cache) ==
    IF i > Len(file) THEN cache
    ELSE IF ~file[i].valid THEN load_cache_from(file, i + 1, cache)
    ELSE IF falsy(get(file[i].record, "name")) THEN load_cache_from(file, i + 1, cache)
    ELSE load_cache_from(file, i + 1,
                         od_set(cache, lower(file[i].record.name), file[i].record))

load_cache(file) == load_cache_from(file, 1, <<>>)

\* a loader that passes over every line it cannot use
load_cache_fails_never(file) == FALSE

\* load_cache, line 72: record.get on what json.loads gave; a line holding a
\* JSON value that is no object (a number, a string, a list, null) has no get,
\* and the AttributeError leaves load_cache
load_cache_fails(file) ==
    \E i \in 1..Len(file) : file[i].valid /\ ~is_dict(file[i].record)

\* a rewrite that keeps the record written last only
write_cache_last_only(cache) ==
    IF cache = <<>> THEN <<>> ELSE <<json_line(cache[Len(cache)].record)>>

write_cache(cache) == [i \in 1..Len(cache) |-> json_line(cache[i].record)]

\* an optional record: what dict.get returns
Nothing == [found |-> FALSE]
Some(record) == [found |-> TRUE, record |-> record]

\* variant of cache_lookup that compares the name as given
cache_lookup_case_sensitive(cache, name) ==
    IF od_has(cache, name) THEN Some(od_get(cache, name)) ELSE Nothing

\* cache.get(name.lower()); Nothing (None) when there is no record
cache_lookup(cache, name) ==
    IF od_has(cache, lower(name)) THEN Some(od_get(cache, lower(name))) ELSE Nothing

\* variant of cache_update that starts the record afresh at every update
cache_update_fresh(cache, name, markdown, address) ==
    od_set(cache, lower(name),
           [name |-> name, markdown |-> markdown, addresses |-> <<address>>])

\* cache_update: the mapping after the update; the caller rewrites the file from it
cache_update(cache, name, markdown, address) ==
    LET key == lower(name)
        record == IF od_has(cache, key)
                  THEN od_get(cache, key)
                  ELSE [name |-> name, markdown |-> markdown, addresses |-> <<>>]
        addresses == IF address \in Range(record.addresses)
                     THEN record.addresses
                     ELSE Append(record.addresses, address)
    IN  od_set(cache, key,
               [name |-> record.name, markdown |-> markdown, addresses |-> addresses])

\* the outcome of one bot.run: it raises, or its last yield is a message list
BackendRaises == [raised |-> TRUE]
BackendYields(resps) == [raised |-> FALSE, responses |-> resps]

\* the outcome of a describe call: what it returns or raises, the cache file it
\* leaves, and whether it submitted a conversation to the backend
Outcome(out, file, submitted) == [out |-> out, file |-> file, submitted |-> submitted]

\* what follows a cache miss, in both describe functions: one conversation, then
\* extract_markdown
describe_by_backend(backend) ==
    IF backend.raised THEN Raise("BackendError") ELSE extract_markdown(backend.responses)

\* variant of describe_external_function that returns the cached markdown without
\* recording the address of the call
describe_external_function_no_accumulate(entry, file, backend) ==
    LET cache == load_cache(file)
        cached == IF DOMAIN entry = {"address", "name"}
                  THEN cache_lookup(cache, entry.name) ELSE Nothing
        md == describe_by_backend(backend)
    IN  IF "address" \notin DOMAIN entry \/ "name" \notin DOMAIN entry
        THEN Outcome(Raise("ValueError"), file, FALSE)
        ELSE IF load_cache_fails(file)
        THEN Outcome(Raise("AttributeError"), file, FALSE)
        ELSE IF cached.found
        THEN Outcome(Return(cached.record.markdown), file, FALSE)
        ELSE IF md.raised
        THEN Outcome(md, file, TRUE)
        ELSE Outcome(md, write_cache(cache_update(cache, entry.name, md.val, entry.address)),
                     TRUE)

\* variant of describe_external_function that records a failed description as
\* an empty one
describe_external_function_failure_recorded(entry, file, backend) ==
    LET cache == load_cache(file)
        cached == IF DOMAIN entry = {"address", "name"}
                  THEN cache_lookup(cache, entry.name) ELSE Nothing
        md == describe_by_backend(backend)
    IN  IF "address" \notin DOMAIN entry \/ "name" \notin DOMAIN entry
        THEN Outcome(Raise("ValueError"), file, FALSE)
        ELSE IF load_cache_fails(file)
        THEN Outcome(Raise("AttributeError"), file, FALSE)
        ELSE IF cached.found
        THEN Outcome(Return(cached.record.markdown),
                     IF entry.address \notin Range(cached.record.addresses)
                     THEN write_cache(cache_update(cache, entry.name,
                                                   cached.record.markdown, entry.address))
                     ELSE file,
                     FALSE)
        ELSE Outcome(md,
                     write_cache(cache_update(cache, entry.name,
                                              IF md.raised THEN <<>> ELSE md.val,
                                              entry.address)),
                     TRUE)

\* variant of describe_external_function that, on a miss, keeps the new record
\* in memory and leaves the store as it is
describe_external_function_miss_unwritten(entry, file, backend) ==
    LET cache == load_cache(file)
        cached == IF DOMAIN entry = {"address", "name"}
                  THEN cache_lookup(cache, entry.name) ELSE Nothing
        md == describe_by_backend(backend)
    IN  IF "address" \notin DOMAIN entry \/ "name" \notin DOMAIN entry
        THEN Outcome(Raise("ValueError"), file, FALSE)
        ELSE IF load_cache_fails(file)
        THEN Outcome(Raise("AttributeError"), file, FALSE)
        ELSE IF cached.found
        THEN Outcome(Return(cached.record.markdown),
                     IF entry.address \notin Range(cached.record.addresses)
                     THEN write_cache(cache_update(cache, entry.name,
                                                   cached.record.markdown, entry.address))
                     ELSE file,
                     FALSE)
        ELSE Outcome(md, file, TRUE)

\* the local variable cache of describe_external_function when the call ends:
\* nothing before load_cache has run, the mapping as loaded after a hit at a
\* recorded address and after a failed description, and the mapping as
\* cache_update left it otherwise
in_memory_cache(entry, file, backend) ==
    LET cache == load_cache(file)
        cached == cache_lookup(cache, entry.name)
        md == describe_by_backend(backend)
    IN  IF "address" \notin DOMAIN entry \/ "name" \notin DOMAIN entry
        THEN <<>>
        ELSE IF load_cache_fails(file)
        THEN <<>>
        ELSE IF cached.found
        THEN (IF entry.address \notin Range(cached.record.addresses)
              THEN cache_update(cache, entry.name, cached.record.markdown, entry.address)
              ELSE cache)
        ELSE IF md.raised
        THEN cache
        ELSE cache_update(cache, entry.name, md.val, entry.address)

describe_external_function(entry, file, backend) ==
    LET cache == load_cache(file)
        cached == IF DOMAIN entry = {"address", "name"}
                  THEN cache_lookup(cache, entry.name) ELSE Nothing
        md == describe_by_backend(backend)
    IN  IF "address" \notin DOMAIN entry \/ "name" \notin DOMAIN entry
        THEN Outcome(Raise("ValueError"), file, FALSE)
        ELSE IF load_cache_fails(file)
        THEN Outcome(Raise("AttributeError"), file, FALSE)
        ELSE IF cached.found
        THEN Outcome(Return(cached.record.markdown),
                     IF entry.address \notin Range(cached.record.addresses)
                     THEN write_cache(cache_update(cache, entry.name,
                                                   cached.record.markdown, entry.address))
                     ELSE file,
                     FALSE)
        ELSE IF md.raised
        THEN Outcome(md, file, TRUE)
        ELSE Outcome(md, write_cache(cache_update(cache, entry.name, md.val, entry.address)),
                     TRUE)

\* variant of describe_internal_function that goes through the JSONL cache
describe_internal_function_cached(entry, file, backend) ==
    describe_external_function(entry, file, backend)

(* describe_internal_function.py *)
describe_internal_function(entry, file, backend) ==
    IF "address" \notin DOMAIN entry \/ "name" \notin DOMAIN entry
    THEN Outcome(Raise("ValueError"), file, FALSE)
    ELSE Outcome(describe_by_backend(backend), file, TRUE)

-----------------------------------------------------------------------------
(* Specification SpecExtract: one extractor applied to one message list.   *)
(* The message list is drawn at Init; each action is one extractor called  *)
(* on it, as the step functions call it on bot.run's last yield.           *)

Roles == {"assistant", "function"}

Msg(r, t) == [role |-> r, content |-> t]

\* the object used in the spec's examples, and a complete FunctionRef object
ObjA == <<"{", "a", "}">>
ObjRef == <<"{", "address", "func_name", "}">>
ObjRename == <<"{", "address", "func_name", "old_name", "new_name", "}">>
\* an object that lacks the name key
ObjPartial == <<"{", "address", "}">>
Arr1 == <<"[", "1", "]">>
Arr2 == <<"[", "2", "]">>

\* prefix <fence>json BODY <fence> suffix
Fenced(body) == <<"x", " ", "<fence>json">> \o body \o <<"<fence>", " ", "x">>
\* noise BODY noise
Embedded(body) == <<"x", " ">> \o body \o <<" ", "x">>

Bodies == {ObjA, ObjRef, ObjRename, Arr1, Arr2}

\* replies longer than MaxTextLen that the extractors must be tried on
SampleTexts ==
    Bodies
    \cup {Fenced(b) : b \in Bodies}
    \cup {Embedded(b) : b \in Bodies}
    \cup {<<" ">> \o b \o <<" ">> : b \in Bodies}
    \cup { <<"x", "x", "x", "x">>,
           \* a fenced array inside a JSON string inside an embedded array
           <<"x", "[", "q", "<fence>", "[", "1", "]", "<fence>", "q", "]">>,
           \* a fenced array followed by an unrelated closing bracket
           <<"<fence>", "[", "1", "]", "<fence>", "x", "]">>,
           \* two fenced blocks, the first not an array
           <<"<fence>", "[", "x", "]", "<fence>", "<fence>json", "[", "2", "]", "<fence>">>,
           <<"{", "address", "}">>,
           <<"{", "address", "func_name", "old_name", "new_name_other", "}">> }

\* the texts of multi-message inputs
MsgTexts ==
    {<<>>, <<"x">>, <<" ", "x", " ">>, Arr1, Arr2, Embedded(Arr1), ObjRef, ObjPartial}

SingleReplies ==
    {<<Msg("assistant", t)>> : t \in SeqsUpTo(BaseTokens, MaxTextLen) \cup SampleTexts}

MessageLists ==
    SeqsUpTo({Msg(r, t) : r \in Roles, t \in MsgTexts}, MaxMsgs)

\* the parts of the state a specification does not use stay as they are here
DedupeIdle ==
    /\ entries = <<>>
    /\ deduped = [done |-> FALSE]

CacheIdle ==
    /\ cache_file = <<>>
    /\ last_call = [done |-> FALSE]
    /\ first_md = <<>>
    /\ passed = <<>>
    /\ executions = <<>>

ExtractIdle ==
    /\ responses = <<>>
    /\ extractor = "idle"
    /\ extracted = [done |-> FALSE]

\* a local variable that holds nothing yet
Unset == [unset |-> TRUE]

\* no step function has been called yet
NoCall ==
    [fn |-> "", submits |-> 0, slept |-> 0, printed |-> 0, status |-> "", error |-> "",
     attempts |-> <<>>]

\* the locals of process_major_function before it is entered
NoOrigins == [sections |-> <<>>, excerpts |-> <<>>, triggered |-> <<>>]

FrameIdle ==
    /\ handler = Unset
    /\ children = <<>>
    /\ child_idx = 0
    /\ pending = <<>>
    /\ child_sections = <<>>
    /\ child_mem_codes = <<>>
    /\ child_block = <<>>
    /\ parent_mem_md = <<>>
    /\ combined_context = <<>>
    /\ irp_md = <<>>
    /\ irp_transcripts = <<>>
    /\ origins = NoOrigins

\* the report file before write_result_report has written it
NoFile == [written |-> FALSE]

RunIdle ==
    /\ callers = <<>>
    /\ idx = 0
    /\ reports = <<>>
    /\ all_transcripts = <<>>
    /\ all_mem_codes = <<>>
    /\ deep_reasoning_md = <<>>
    /\ report_file = NoFile

StreamIdle ==
    /\ stream_pc = "idle"
    /\ environment = Unset
    /\ stream = <<>>
    /\ consumed = <<>>
    /\ is_answering = FALSE
    /\ reasoning_parts = <<>>
    /\ answer_parts = <<>>
    /\ echoed = <<>>
    /\ requests = 0
    /\ stream_result = [returned |-> FALSE]

PipelineIdle ==
    /\ pc = "idle"
    /\ attempt = 0
    /\ call = NoCall
    /\ FrameIdle
    /\ RunIdle
    /\ progress = <<>>
    /\ resolved = <<>>
    /\ collected = 0
    /\ log_file = <<>>

InitExtract ==
    /\ responses \in SingleReplies \cup MessageLists
    /\ extractor = "idle"
    /\ extracted = [done |-> FALSE]
    /\ DedupeIdle
    /\ CacheIdle
    /\ PipelineIdle
    /\ StreamIdle

ExtractDiscover ==
    /\ extractor = "idle"
    /\ extractor' = "find_extract_json_result"
    /\ extracted' = [done |-> TRUE, out |-> find_extract_json_result(responses)]
    /\ UNCHANGED <<responses, dedupe_vars, cache_vars, pipeline_vars, stream_vars>>

ExtractChildren ==
    /\ extractor = "idle"
    /\ extractor' = "extract_json_array"
    /\ extracted' = [done |-> TRUE, out |-> extract_json_array(responses)]
    /\ UNCHANGED <<responses, dedupe_vars, cache_vars, pipeline_vars, stream_vars>>

ExtractHandler ==
    /\ extractor = "idle"
    /\ extractor' = "extract_json_object"
    /\ extracted' = [done |-> TRUE, out |-> extract_json_object(responses)]
    /\ UNCHANGED <<responses, dedupe_vars, cache_vars, pipeline_vars, stream_vars>>

ExtractMemoryParam ==
    /\ extractor = "idle"
    /\ extractor' = "extract_json"
    /\ extracted' = [done |-> TRUE, out |-> extract_json(responses)]
    /\ UNCHANGED <<responses, dedupe_vars, cache_vars, pipeline_vars, stream_vars>>

ExtractRename ==
    /\ extractor = "idle"
    /\ extractor' = "rename_extract_json_result"
    /\ extracted' = [done |-> TRUE, out |-> rename_extract_json_result(responses)]
    /\ UNCHANGED <<responses, dedupe_vars, cache_vars, pipeline_vars, stream_vars>>

ExtractPrototype ==
    /\ extractor = "idle"
    /\ extractor' = "define_extract_json_result"
    /\ extracted' = [done |-> TRUE, out |-> define_extract_json_result(responses)]
    /\ UNCHANGED <<responses, dedupe_vars, cache_vars, pipeline_vars, stream_vars>>

ExtractMarkdown ==
    /\ extractor = "idle"
    /\ extractor' = "extract_markdown"
    /\ extracted' = [done |-> TRUE, out |-> extract_markdown(responses)]
    /\ UNCHANGED <<responses, dedupe_vars, cache_vars, pipeline_vars, stream_vars>>

NextExtract ==
    \/ ExtractDiscover
    \/ ExtractChildren
    \/ ExtractHandler
    \/ ExtractMemoryParam
    \/ ExtractRename
    \/ ExtractPrototype
    \/ ExtractMarkdown

SpecExtract == InitExtract /\ [][NextExtract]_vars

-----------------------------------------------------------------------------
(* Properties of the extractors (checked under SpecExtract) *)

Done == extracted.done
Out == extracted.out
SingleAssistant == Done /\ Len(responses) = 1 /\ responses[1].role = "assistant"
Reply == responses[1].content

NoBlanks(t) == SelectSeq(t, LAMBDA tok : tok # " ")

ObjectExtractors ==
    {"extract_json_object", "extract_json", "rename_extract_json_result",
     "define_extract_json_result"}
ArrayExtractors == {"find_extract_json_result", "extract_json_array"}

RequiredMembers(ex) ==
    IF ex = "extract_json_object" THEN {"address", "func_name"}
    ELSE IF ex = "rename_extract_json_result"
         THEN {"address", "func_name", "old_name", "new_name"}
    ELSE {}

\* the object of the examples that carries the extractor's required keys
ExampleObject(ex) ==
    IF ex = "extract_json_object" THEN ObjRef
    ELSE IF ex = "rename_extract_json_result" THEN ObjRename
    ELSE ObjA

\* the text is one JSON object and nothing else (blanks aside)
IsExactObject(t) ==
    LET raw == NoBlanks(t)
    IN  /\ Len(raw) >= 2
        /\ raw[1] = "{"
        /\ raw[Len(raw)] = "}"
        /\ \A i \in 2..(Len(raw) - 1) : raw[i] \in Members

StrategyA(raw) == load_json_array(raw)
StrategyB(raw) == first_array_block(json_block_findall(raw, 1))
StrategyC(raw) == bracket_slice(raw)

FirstYield(raw) ==
    IF raw = <<>> THEN None
    ELSE IF StrategyA(raw).ok THEN StrategyA(raw)
    ELSE IF StrategyB(raw).ok THEN StrategyB(raw)
    ELSE StrategyC(raw)

Run(ex, resps) ==
    IF ex = "find_extract_json_result" THEN find_extract_json_result(resps)
    ELSE IF ex = "extract_json_array" THEN extract_json_array(resps)
    ELSE IF ex = "extract_json_object" THEN extract_json_object(resps)
    ELSE IF ex = "extract_json" THEN extract_json(resps)
    ELSE IF ex = "rename_extract_json_result" THEN rename_extract_json_result(resps)
    ELSE IF ex = "define_extract_json_result" THEN define_extract_json_result(resps)
    ELSE extract_markdown(resps)

AssistantIdx == {i \in 1..Len(responses) : responses[i].role = "assistant"}

\* what the extractor makes of message i taken alone, as an assistant message
Alone(i) == Run(extractor, <<Msg("assistant", responses[i].content)>>)

\* message i holds the shape the extractor asks for: taken alone it yields a
\* result or, in an extractor with required keys, it parses as an object
Shaped(i) ==
    \/ ~Alone(i).raised
    \/ /\ RequiredMembers(extractor) # {}
       /\ json_loads(responses[i].content).ok
       /\ json_loads(responses[i].content).kind = "dict"

\* C10: the outcome is the one of the most recent assistant message that holds
\* the requested shape; an earlier assistant message is used only when every
\* later one fails to parse as that shape; a message of another role never
\* contributes.
C10_BackwardWalk ==
    (Done /\ extractor \in ArrayExtractors \cup ObjectExtractors) =>
        LET shaped == {i \in AssistantIdx : Shaped(i)}
        IN  IF shaped = {}
            THEN Out.raised
            ELSE /\ Out = Alone(Max(shaped))
                 /\ \A i \in 1..Len(responses) :
                       (~Alone(i).raised /\ Alone(i) # Out) =>
                           (i < Max(shaped) \/ i \notin AssistantIdx)

\* an earlier assistant message decided: the later assistant message does not
\* parse, and the last message, of another role, holds a different array
C10_Witness ==
    /\ Done
    /\ extractor = "extract_json_array"
    /\ Len(responses) = 3
    /\ responses[1] = Msg("assistant", Arr1)
    /\ responses[2] = Msg("assistant", <<"x">>)
    /\ responses[3] = Msg("function", Arr2)
    /\ Out = Return(Arr1)

\* the assistant messages whose content parses as a JSON object
ObjectIdx ==
    {i \in AssistantIdx : /\ json_loads(responses[i].content).ok
                          /\ json_loads(responses[i].content).kind = "dict"}

\* message i carries every key the extractor requires
CarriesRequired(i) == RequiredMembers(extractor) \subseteq Range(responses[i].content)

\* C31: an extractor with required keys (resolve-handler: address and
\* func_name; rename: those, old_name and the new name) returns an object only
\* if it carries them; when the most recent assistant message that parses as an
\* object lacks a required key the extraction raises, whether or not an earlier
\* assistant message holds a complete object; and it raises when no assistant
\* message parses as an object.
C31_RequiredKeys ==
    (Done /\ RequiredMembers(extractor) # {}) =>
        /\ ~Out.raised => RequiredMembers(extractor) \subseteq Range(Out.val)
        /\ IF ObjectIdx # {} /\ CarriesRequired(Max(ObjectIdx))
           THEN Out = Return(NoBlanks(responses[Max(ObjectIdx)].content))
           ELSE Out = Raise("RuntimeError")

\* a complete object, then an object without the name key: resolve-handler's
\* extractor raised
C31_Witness ==
    /\ Done
    /\ extractor = "extract_json_object"
    /\ responses = <<Msg("assistant", ObjRef), Msg("assistant", ObjPartial)>>
    /\ Out = Raise("RuntimeError")

\* r is t without the blanks at its ends
IsTrimOf(r, t) ==
    /\ r = <<>> \/ (r[1] # " " /\ r[Len(r)] # " ")
    /\ \E a, b \in 0..Len(t) :
          /\ a + Len(r) + b = Len(t)
          /\ \A i \in 1..Len(t) :
                IF i <= a \/ i > a + Len(r) THEN t[i] = " " ELSE t[i] = r[i - a]

\* C11: the prose extractor returns the text of the last assistant message,
\* trimmed and otherwise unchanged, whatever the other messages hold; without an
\* assistant message it raises the extraction error.
C11_ProseExtraction ==
    (Done /\ extractor = "extract_markdown") =>
        IF AssistantIdx = {}
        THEN Out = Raise("RuntimeError")
        ELSE /\ ~Out.raised
             /\ IsTrimOf(Out.val, responses[Max(AssistantIdx)].content)

\* the last assistant message is padded with blanks, an earlier assistant
\* message holds an array and a message of another role follows
C11_Witness ==
    /\ Done
    /\ extractor = "extract_markdown"
    /\ responses = <<Msg("assistant", Arr1), Msg("assistant", <<" ", "x", " ">>),
                     Msg("function", Arr2)>>
    /\ Out = Return(<<"x">>)

-----------------------------------------------------------------------------
(* Specification SpecDedupe: dedupe_functions applied to one list of records, *)
(* called as main calls it (name_key "func_name", addr_key "address").        *)

\* longest list of records enumerated
MaxEntries == 3

Entry(name, addr) == [func_name |-> name, address |-> addr]

\* records as a backend reply can hold them: complete ones, ones with an empty
\* name or address, ones lacking the name or the address
EntryValues ==
    {Entry(n, a) : n \in NameValues, a \in {"0xa", "0xA"}}
    \cup {Entry("f", ""), [address |-> "0xa"], [func_name |-> "f"]}

InitDedupe ==
    /\ entries \in SeqsUpTo(EntryValues, MaxEntries)
    /\ deduped = [done |-> FALSE]
    /\ ExtractIdle
    /\ CacheIdle
    /\ PipelineIdle
    /\ StreamIdle

Dedupe ==
    /\ ~deduped.done
    /\ deduped' = [done |-> TRUE, val |-> dedupe_functions(entries, "func_name", "address")]
    /\ UNCHANGED <<entries, extract_vars, cache_vars, pipeline_vars, stream_vars>>

NextDedupe == Dedupe

SpecDedupe == InitDedupe /\ [][NextDedupe]_vars

Complete(e) == ~falsy(get(e, "func_name")) /\ ~falsy(get(e, "address"))
Key(e) == <<lower(e.func_name), lower(e.address)>>

\* the positions of the complete records that are the first to carry their key
FirstIdx ==
    {i \in 1..Len(entries) :
        /\ Complete(entries[i])
        /\ \A j \in 1..(i - 1) : Complete(entries[j]) => Key(entries[j]) # Key(entries[i])}

Nth(S, n) == CHOOSE x \in S : Cardinality({y \in S : y < x}) = n - 1

\* C7: dedupe returns the input's complete records that are the first to carry
\* their (lowercased name, lowercased address) key, in input order: a subsequence
\* with no key twice, no incomplete record, every complete record's key exactly
\* once; dedupe of the result is the result.
C7_Dedupe ==
    deduped.done =>
        LET d == deduped.val
        IN  /\ Len(d) = Cardinality(FirstIdx)
            /\ \A n \in 1..Len(d) : d[n] = entries[Nth(FirstIdx, n)]
            /\ \A n \in 1..Len(d) : Complete(d[n])
            /\ \A m, n \in 1..Len(d) : m # n => Key(d[m]) # Key(d[n])
            /\ \A i \in 1..Len(entries) :
                  Complete(entries[i]) =>
                      Cardinality({n \in 1..Len(d) : Key(d[n]) = Key(entries[i])}) = 1
            /\ dedupe_functions(d, "func_name", "address") = d

\* a list with a duplicate in another case and an incomplete record was deduplicated
C7_Witness ==
    /\ deduped.done
    /\ entries = <<Entry("f", "0xa"), Entry("F", "0xA"), [address |-> "0xa"]>>
    /\ deduped.val = <<Entry("f", "0xa")>>

-----------------------------------------------------------------------------
(* Specification SpecCache: describe calls, one after another, on one cache  *)
(* file.  Each action is one whole call: load_cache, cache_lookup, the       *)
(* backend conversation on a miss, cache_update and write_cache.             *)

\* the names of the functions described: complete FunctionRefs carry a non-empty name
DescribeNames == NameValues \ {""}
NameKeys == {lower(n) : n \in DescribeNames}

\* the entries of the calls: every name at two addresses that differ in case
\* only, and an entry that lacks the name
DescribeEntries ==
    {[address |-> a, name |-> n] : a \in {"0xa", "0xA"}, n \in DescribeNames}
    \cup {[address |-> "0xa"]}

\* what one conversation can end in: an exception, no assistant message, or an
\* assistant message holding one of two descriptions
Backends ==
    { BackendRaises,
      BackendYields(<<Msg("function", <<"x">>)>>),
      BackendYields(<<Msg("assistant", <<" ", "x">>)>>),
      BackendYields(<<Msg("assistant", <<"x", "x">>), Msg("function", <<"x">>)>>) }

InitCache ==
    /\ cache_file = <<>>
    /\ last_call = [done |-> FALSE]
    /\ first_md = [k \in NameKeys |-> [set |-> FALSE]]
    /\ passed = [k \in NameKeys |-> <<>>]
    /\ executions = <<>>
    /\ ExtractIdle
    /\ DedupeIdle
    /\ PipelineIdle
    /\ StreamIdle

Tracked(entry) == "name" \in DOMAIN entry

\* the call before this one was the same kind of call for the same name, and returned
JustDescribed(type, entry) ==
    /\ last_call.done
    /\ last_call.type = type
    /\ Tracked(entry) /\ Tracked(last_call.entry)
    /\ lower(last_call.entry.name) = lower(entry.name)
    /\ ~last_call.out.raised

\* the call before this one was an external description of the same name that
\* submitted a conversation and failed
JustFailed(entry) ==
    /\ last_call.done
    /\ last_call.type = "external"
    /\ Tracked(entry) /\ Tracked(last_call.entry)
    /\ lower(last_call.entry.name) = lower(entry.name)
    /\ last_call.submitted
    /\ last_call.out.raised

DescribeExternal ==
    \E entry \in DescribeEntries, backend \in Backends :
        LET r == describe_external_function(entry, cache_file, backend)
            k == lower(entry.name)
        IN  /\ cache_file' = r.file
            /\ last_call' = [done |-> TRUE, type |-> "external", entry |-> entry,
                             out |-> r.out, submitted |-> r.submitted,
                             known |-> Tracked(entry) /\ first_md[k].set,
                             cache |-> in_memory_cache(entry, cache_file, backend),
                             again |-> JustFailed(entry)]
            /\ IF Tracked(entry) /\ ~r.out.raised
               THEN /\ first_md' = IF first_md[k].set THEN first_md
                                   ELSE [first_md EXCEPT ![k] = [set |-> TRUE, md |-> r.out.val]]
                    /\ passed' = IF entry.address \in Range(passed[k]) THEN passed
                                 ELSE [passed EXCEPT ![k] = Append(@, entry.address)]
               ELSE UNCHANGED <<first_md, passed>>
            /\ UNCHANGED <<executions, extract_vars, dedupe_vars, pipeline_vars, stream_vars>>

DescribeInternal ==
    \E entry \in DescribeEntries, backend \in Backends :
        LET r == describe_internal_function(entry, cache_file, backend)
        IN  /\ cache_file' = r.file
            /\ last_call' = [done |-> TRUE, type |-> "internal", entry |-> entry,
                             out |-> r.out, submitted |-> r.submitted,
                             known |-> JustDescribed("internal", entry)]
            /\ UNCHANGED <<first_md, passed, executions, extract_vars, dedupe_vars, pipeline_vars, stream_vars>>

NextCache ==
    \/ DescribeExternal
    \/ DescribeInternal

SpecCache == InitCache /\ [][NextCache]_vars

-----------------------------------------------------------------------------
(* Properties of the description cache (checked under SpecCache) *)

\* the records the file holds for one lowercased name
RecordsOf(k) ==
    {cache_file[i].record : i \in {j \in 1..Len(cache_file) :
        cache_file[j].valid /\ lower(cache_file[j].record.name) = k}}

CallKey == lower(last_call.entry.name)

\* C4: once a describe-function call for a name has returned, the file holds a
\* record for the name with that markdown, and every later call for the name, in
\* any case and at any address, returns that markdown without a conversation.
C4_IdempotentLookup ==
    /\ \A k \in NameKeys :
          first_md[k].set =>
              \E r \in RecordsOf(k) : r.markdown = first_md[k].md
    /\ (last_call.done /\ last_call.type = "external" /\ last_call.known) =>
          /\ ~last_call.submitted
          /\ last_call.out = Return(first_md[CallKey].md)

\* a name first described as "f" was described again as "F" at an address not
\* yet in its record, and the call was served from the cache
C4_Witness ==
    /\ last_call.done
    /\ last_call.type = "external"
    /\ last_call.known
    /\ last_call.entry = [address |-> "0xA", name |-> "F"]
    /\ \E r \in RecordsOf("f") : r.name = "f" /\ r.addresses = <<"0xa", "0xA">>
    /\ ~last_call.submitted

C6_AddressAccumulation ==
    \A k \in NameKeys :
        /\ passed[k] # <<>> => RecordsOf(k) # {}
        /\ \A r \in RecordsOf(k) :
              /\ r.addresses = passed[k]
              /\ \A m, n \in 1..Len(r.addresses) : m # n => r.addresses[m] # r.addresses[n]

\* A, then B, then A again: the record holds [A, B]
C6_Witness ==
    /\ last_call.done
    /\ last_call.type = "external"
    /\ last_call.known
    /\ last_call.entry.address = "0xa"
    /\ passed[CallKey] = <<"0xa", "0xA">>
    /\ \E r \in RecordsOf(CallKey) : r.addresses = <<"0xa", "0xA">>

\* s is an initial segment of t
IsPrefix(s, t) == Len(s) <= Len(t) /\ SubSeq(t, 1, Len(s)) = s

\* every record of the store before the call is in the store after it, under
\* the same name, with the same markdown and with its address list extended at
\* the end, if at all
RecordsKept ==
    \A k \in NameKeys :
        \A r \in RecordsOf(k) :
            \E r2 \in RecordsOf(k)' :
                /\ r2.name = r.name
                /\ r2.markdown = r.markdown
                /\ IsPrefix(r.addresses, r2.addresses)

\* C32: cache records are never deleted or regressed: whatever a
\* describe-function call is (a hit, a miss for another name, a failure, a call
\* of the internal variant), every record the store held before it is still
\* there after it, with its markdown unchanged and its earlier address list a
\* prefix of its address list; hence the same after any sequence of calls.
C32_RecordsNeverRegress ==
    [][RecordsKept]_vars

\* the record of "f" was made, extended by a hit at a second address, and has
\* outlived a failed description of "g"
C32_Witness ==
    /\ last_call.done
    /\ last_call.type = "external"
    /\ Tracked(last_call.entry)
    /\ last_call.entry.name = "g"
    /\ last_call.out.raised
    /\ last_call.submitted
    /\ RecordsOf("g") = {}
    /\ \E r \in RecordsOf("f") :
          r.markdown = first_md["f"].md /\ r.addresses = <<"0xa", "0xA">>

\* the store holds the mapping: one line per record, in the mapping's order
StoreEquals(file, cache) ==
    /\ Len(file) = Len(cache)
    /\ \A i \in 1..Len(file) : file[i].valid /\ file[i].record = cache[i].record

\* the record the store holds for the name of the call, if any, lists the
\* address of the call
AddressRecorded(file, entry) ==
    \E i \in 1..Len(file) :
        /\ file[i].valid
        /\ lower(file[i].record.name) = lower(entry.name)
        /\ entry.address \in Range(file[i].record.addresses)

\* one external describe call that passed validation: if the address of the
\* call was recorded already, or the description failed, the store and the
\* mapping in memory are what they were; otherwise the mapping has changed and
\* the store was rewritten to hold exactly the mapping
WriteThroughStep ==
    (last_call'.type = "external" /\ Tracked(last_call'.entry)) =>
        IF AddressRecorded(cache_file, last_call'.entry) \/ last_call'.out.raised
        THEN /\ cache_file' = cache_file
             /\ StoreEquals(cache_file, last_call'.cache)
        ELSE /\ cache_file' # cache_file
             /\ StoreEquals(cache_file', last_call'.cache)
             /\ AddressRecorded(cache_file', last_call'.entry)

\* C33: write-through with a minimal frame.  Whenever a describe-function call
\* changes the cache (a miss that succeeds, a hit at a new address) the store
\* is rewritten in full before the call returns and then equals the mapping in
\* memory; a hit whose address is recorded already leaves the record in
\* memory and the store unchanged.
C33_WriteThrough ==
    [][WriteThroughStep]_vars

\* a hit at a new address has been written through: the store holds two
\* records, the one of the call with both addresses
C33_Witness ==
    /\ last_call.done
    /\ last_call.type = "external"
    /\ Tracked(last_call.entry)
    /\ last_call.known
    /\ ~last_call.submitted
    /\ Len(cache_file) = 2
    /\ StoreEquals(cache_file, last_call.cache)
    /\ od_get(last_call.cache, CallKey).addresses = <<"0xa", "0xA">>

\* the store holds no record under the name of the entry
NoRecord(file, entry) ==
    \A i \in 1..Len(file) :
        file[i].valid => lower(file[i].record.name) # lower(entry.name)

\* one external describe call: if it missed the cache and its conversation or
\* its extraction failed, the store is what it was, without a record for the
\* name; and a call for a name without a record submits a conversation
FailedMissStep ==
    (last_call'.type = "external" /\ Tracked(last_call'.entry)) =>
        /\ (last_call'.submitted /\ last_call'.out.raised) =>
              /\ NoRecord(cache_file, last_call'.entry)
              /\ cache_file' = cache_file
              /\ StoreEquals(cache_file, last_call'.cache)
        /\ NoRecord(cache_file, last_call'.entry) => last_call'.submitted

\* C34: a failed description leaves the cache untouched: when describe-function
\* misses the cache and the backend conversation or the extraction fails, no
\* record is created for the name, no record changes and the store is not
\* rewritten, so that the next call for the name submits a conversation again.
C34_FailedMissLeavesCache ==
    /\ [][FailedMissStep]_vars
    /\ [](last_call.done /\ last_call.type = "external" /\ last_call.again
            => last_call.submitted)

\* the description of "g" failed, and the next call for "g" went to the backend
\* again, this time with success
C34_Witness ==
    /\ last_call.done
    /\ last_call.type = "external"
    /\ last_call.again
    /\ last_call.entry.name = "g"
    /\ last_call.submitted
    /\ ~last_call.out.raised
    /\ \E r \in RecordsOf("g") : r.markdown = last_call.out.val

\* C35: addresses are compared without regard to case in the cache too: no
\* record's address list ever holds two entries that are equal when
\* lowercased, so that a name described at "0xA" and then at "0xa" has a single
\* address.
C35_AddressesCaseInsensitive ==
    \A i \in 1..Len(cache_file) :
        \A m, n \in 1..Len(cache_file[i].record.addresses) :
            lower(cache_file[i].record.addresses[m])
                = lower(cache_file[i].record.addresses[n]) => m = n

\* what holds instead: the addresses of a record are pairwise different as
\* strings, and two addresses that differ in case only are both kept
AddressesDistinctAsGiven ==
    \A i \in 1..Len(cache_file) :
        \A m, n \in 1..Len(cache_file[i].record.addresses) :
            cache_file[i].record.addresses[m] = cache_file[i].record.addresses[n] => m = n

AddressesDistinctAsGiven_Witness ==
    \E i \in 1..Len(cache_file) : cache_file[i].record.addresses = <<"0xA", "0xa">>

-----------------------------------------------------------------------------
(* The run: pipeline.py main() and the step functions it calls.              *)
(* A step function's conversation with the backend is an input: it fails in  *)
(* the backend, or its reply fails extraction, or it yields a value.         *)

\* callers discovered per run
MaxCallers == 2
\* children enumerated per caller
MaxChildren == 2

\* find_iocreatedevice_refs: range(3) of the retry loop, the attempt whose
\* failure is re-raised, the wait between attempts in seconds
MaxAttempts == 3
LastAttempt == 2
wait_sec == 30

MEMORY_MARKERS == {"# MEM #", "# MAP #"}

\* the fixed texts of pipeline.py (rendered in ASCII)
NoChildDescriptions == <<"(no child descriptions)">>
MemoryParamFailed == <<"(analyze_memory_param failed)">>
IrpAnalysisFailed == <<"(IRP memory access analysis failed)">>
NoDeepReasoning == <<"(no deep reasoning result)">>

BackendError == [kind |-> "backend_error"]
ExtractError == [kind |-> "extract_error"]
StepFailures == {BackendError, ExtractError}
Ok(v) == [kind |-> "ok", val |-> v]

\* variant of single_attempt that repeats a failed conversation up to the ceiling
single_attempt_retried(fn, out) ==
    [fn |-> fn,
     submits |-> IF out.kind = "ok" THEN 1 ELSE MaxAttempts,
     slept |-> 0,
     printed |-> 0,
     status |-> IF out.kind = "ok" THEN "returned" ELSE "raised",
     error |-> IF out.kind = "ok" THEN "" ELSE out.kind,
     attempts |-> IF out.kind = "ok" THEN <<out>> ELSE <<out, out, out>>]

\* a step function without a retry loop: one Assistant, one bot.run, one
\* extraction; whatever it raises leaves the function
single_attempt(fn, out) ==
    [fn |-> fn,
     submits |-> 1,
     slept |-> 0,
     printed |-> 0,
     status |-> IF out.kind = "ok" THEN "returned" ELSE "raised",
     error |-> IF out.kind = "ok" THEN "" ELSE out.kind,
     attempts |-> <<out>>]

\* describe_external_function answered from its cache: no conversation
cache_hit(fn) ==
    [fn |-> fn, submits |-> 0, slept |-> 0, printed |-> 0, status |-> "returned",
     error |-> "", attempts |-> <<>>]

\* variant of sleep that returns at once
sleep_skipped(slept, sec) == slept

\* time.sleep(wait_sec) of find_iocreatedevice_refs: the time slept so far
\* grows by the argument
sleep(slept, sec) == slept + sec

\* variant of reraise that gives up one attempt later
reraise_late(n) == n >= LastAttempt + 1

\* find_iocreatedevice_refs: "if attempt >= 2: raise"
reraise(n) == n >= LastAttempt

\* "sep".join(parts), parts being texts
RECURSIVE join(_, _)
join(sep, parts) ==
    IF parts = <<>> THEN <<>>
    ELSE IF Len(parts) = 1 THEN parts[1]
    ELSE parts[1] \o <<sep>> \o join(sep, Tail(parts))

\* a test that knows the first marker only
has_memory_marker_first(text) == "# MEM #" \in Range(text)

has_memory_marker(text) == \E marker \in MEMORY_MARKERS : marker \in Range(text)

format_child_section(child, description) ==
    <<"#### ", child.name, get(child, "type"), child.address>> \o strip(description)

\* variant of the child block that has no placeholder
child_block_of_joined(sections) == join("\n\n", sections)

\* process_major_function: the child-description block
child_block_of(sections) ==
    IF sections # <<>> THEN join("\n\n", sections) ELSE NoChildDescriptions

\* a context that always ends with the code section
build_context_with_code(block, parent_md, mem_codes) ==
    strip(<<"### child descriptions">> \o block
          \o <<"### memory parameter analysis">> \o parent_md)
    \o <<"### controlled memory parameter code">> \o join("\n\n", mem_codes)

\* process_major_function: the context of the IRP analysis
build_context(block, parent_md, mem_codes) ==
    LET parts == <<"### child descriptions">> \o block
                 \o <<"### memory parameter analysis">> \o parent_md
    IN  IF mem_codes # <<>>
        THEN strip(parts) \o <<"### controlled memory parameter code">>
             \o join("\n\n", mem_codes)
        ELSE strip(parts)

\* process_major_function: report_lines
report_of(caller, hdl, block, parent_md, irp) ==
    [caller |-> caller, handler |-> hdl, child_block |-> block,
     parent_mem_md |-> parent_md, irp_md |-> irp]

\* the headings write_result_report puts before its second and third part
DeepHeading == "## deep reasoning output"
MemSummaryHeading == "## controlled memory parameter code summary"

\* a report writer that always closes with the code summary
write_result_report_summary_always(report_md, deep_md, mem_code_sections) ==
    [written |-> TRUE,
     main |-> report_md,
     deep |-> IF strip(deep_md) # <<>> THEN strip(deep_md) ELSE NoDeepReasoning,
     mem_summary |-> mem_code_sections,
     lines |-> <<"# report", DeepHeading, "deep", MemSummaryHeading, "codes">>]

\* write_result_report: the file it writes. report_md stands for final_output,
\* the title followed by the callers' sections, which is never empty; lines is
\* the list the function joins: the main content, the deep-reasoning heading
\* and its text or placeholder, and, if any excerpt was given, the summary
\* heading and the joined excerpts
write_result_report(report_md, deep_md, mem_code_sections) ==
    [written |-> TRUE,
     main |-> report_md,
     deep |-> IF strip(deep_md) # <<>> THEN strip(deep_md) ELSE NoDeepReasoning,
     mem_summary |-> mem_code_sections,
     lines |-> <<"# report", DeepHeading, "deep">>
               \o (IF mem_code_sections # <<>>
                   THEN <<MemSummaryHeading, "codes">> ELSE <<>>)]

\* what the backend may report
CallerPool == <<Entry("f", "0xa"), Entry("g", "0xb"), Entry("h", "0xc")>>

\* replies of discover-callers: n callers, with or without a repetition of the
\* first one in another case
DiscoverResults ==
    {<<>>} \cup
    {SubSeq(CallerPool, 1, n) \o dup :
        n \in 1..Min({MaxCallers, Len(CallerPool)}),
        dup \in {<<>>, <<Entry("F", "0xA")>>}}

\* the handler the backend resolves for a caller, one per caller
HandlerOf(caller) ==
    [address |-> caller.address, func_name |-> "dispatch"]

\* children as enumerate-children may list them: an external one, an internal
\* one, an object without an address, a list element that is no object
ChildValues ==
    { [address |-> "0x1", name |-> "ext", type |-> "external"],
      [address |-> "0x2", name |-> "sub", type |-> "internal"],
      [name |-> "sub", type |-> "internal"],
      [scalar |-> 1] }

ChildLists == SeqsUpTo(ChildValues, MaxChildren)

\* descriptions as describe-function may return them: without a marker, with
\* the first marker (children of the first caller), with the second marker
\* (children of the later callers)
Descriptions(i) ==
    { <<"text">>, IF i = 1 THEN <<"text", "# MEM #">> ELSE <<"# MAP #", "text">> }

MemoryMarkdown(target) == <<"# memory parameters of ", target.func_name>>
IrpMarkdown == <<"irp analysis">>
DeepReasoningMarkdown == <<"### reasoning", "why", "### answer", "yes">>

\* what run_deep_reasoning is given and finds: transcripts or none, the client
\* library installed or not, DASHSCOPE_API_KEY unset, empty or set, and whether
\* the request is accepted
ApiKeys == {"<unset>", "", "sk"}
Environments ==
    [transcripts : BOOLEAN, openai : BOOLEAN, api_key : ApiKeys, create_ok : BOOLEAN]

\* a stage that is skipped only for want of transcripts
skips_deep_reasoning_key_ignored(env) == ~env.transcripts

\* run_deep_reasoning, lines 380-393: the early returns before any request
skips_deep_reasoning(env) ==
    \/ ~env.transcripts
    \/ ~env.openai
    \/ env.api_key \in {"<unset>", ""}

\* a record an earlier run left in the log
EarlierRecord ==
    [target |-> [address |-> "0x0", func_name |-> "earlier"], context |-> <<>>]

Init ==
    /\ pc = "discover"
    /\ attempt = 0
    /\ call = [NoCall EXCEPT !.fn = "find_iocreatedevice_refs", !.status = "running"]
    /\ FrameIdle
    /\ RunIdle
    /\ progress = <<>>
    /\ resolved = <<>>
    /\ collected = 0
    /\ log_file = <<EarlierRecord>>
    /\ ExtractIdle
    /\ DedupeIdle
    /\ CacheIdle
    /\ StreamIdle

\* the locals of process_major_function are gone when it has returned
FrameReset ==
    /\ handler' = Unset
    /\ children' = <<>>
    /\ child_idx' = 0
    /\ pending' = <<>>
    /\ child_sections' = <<>>
    /\ child_mem_codes' = <<>>
    /\ child_block' = <<>>
    /\ parent_mem_md' = <<>>
    /\ combined_context' = <<>>
    /\ irp_md' = <<>>
    /\ irp_transcripts' = <<>>
    /\ origins' = NoOrigins

\* main() with a try block around the call that raised, going on to the report
uncaught_swallowed(where) == "deep_reasoning"

\* main() has no try block around find_iocreatedevice_refs nor around
\* process_major_function: an exception that leaves them ends the run
uncaught(where) == "raised"

\* save_transcript opening the log for writing instead of appending
save_transcript_truncating(log, payload, writable) ==
    IF writable
    THEN [log |-> <<payload>>, payload |-> <<payload>>]
    ELSE [log |-> log, payload |-> <<>>]

\* save_transcript: the record is appended to the log and returned, or, when
\* the log cannot be written, nothing is appended and None is returned
save_transcript(log, payload, writable) ==
    IF writable
    THEN [log |-> Append(log, payload), payload |-> <<payload>>]
    ELSE [log |-> log, payload |-> <<>>]

\* list.extend at the front
extend_front(list, items) == items \o list

\* list.extend
extend(list, items) == list \o items

\* a child loop that stops after its first iteration
after_child_once(i, n) == "parent_memory"

\* a caller loop that ends at the first caller it has finished with
after_caller_break(i, n) == "deep_reasoning"

\* main(): where the caller loop goes after caller i of n
after_caller(i, n) == IF i < n THEN "resolve" ELSE "deep_reasoning"

\* process_major_function: where the child loop goes after child i of n
after_child(i, n) == IF i < n THEN "describe" ELSE "parent_memory"

\* one iteration of the retry loop of find_iocreatedevice_refs, and, when it
\* returns, dedupe_functions and the emptiness test of main()
DiscoverAttempt ==
    /\ pc = "discover"
    /\ attempt < MaxAttempts
    /\ \E out \in StepFailures \cup {Ok(r) : r \in DiscoverResults} :
        LET c == [call EXCEPT !.submits = @ + 1, !.attempts = Append(@, out)]
        IN  IF out.kind = "ok"
            THEN /\ call' = [c EXCEPT !.status = "returned"]
                 /\ callers' = dedupe_functions(out.val, "func_name", "address")
                 /\ idx' = 1
                 /\ pc' = IF callers' = <<>> THEN "returned" ELSE "resolve"
            ELSE /\ UNCHANGED <<callers, idx>>
                 /\ IF out.kind = "backend_error"
                    THEN /\ call' = [c EXCEPT !.status = "raised", !.error = out.kind]
                         /\ pc' = uncaught("find_iocreatedevice_refs")
                    ELSE LET p == [c EXCEPT !.printed = @ + 1]
                         IN  IF reraise(attempt)
                             THEN /\ call' = [p EXCEPT !.status = "raised",
                                                       !.error = out.kind]
                                  /\ pc' = uncaught("find_iocreatedevice_refs")
                             ELSE /\ call' = p
                                  /\ pc' = "sleep"
    /\ UNCHANGED <<attempt, frame_vars, out_vars, progress, aux_vars, other_vars>>

\* time.sleep(wait_sec) and the next value of the loop variable; a loop that
\* runs out returns None, on which dedupe_functions raises
DiscoverSleep ==
    /\ pc = "sleep"
    /\ call' = [call EXCEPT !.slept = sleep(@, wait_sec)]
    /\ attempt' = attempt + 1
    /\ pc' = IF attempt + 1 < MaxAttempts THEN "discover" ELSE "raised"
    /\ UNCHANGED <<frame_vars, run_vars, progress, aux_vars, other_vars>>

\* main(): analyze_major_function_target in its try block
ResolveHandler ==
    /\ pc = "resolve"
    /\ \E out \in StepFailures \cup {Ok(HandlerOf(callers[idx]))} :
        /\ call' = single_attempt("analyze_major_function_target", out)
        /\ resolved' = Append(resolved, out.kind = "ok")
        /\ IF out.kind = "ok"
           THEN /\ handler' = out.val
                /\ pc' = "rename"
                /\ idx' = idx
           ELSE /\ handler' = handler
                /\ pc' = after_caller(idx, Len(callers))
                /\ idx' = idx + 1
    /\ UNCHANGED <<attempt, children, child_idx, pending, child_sections,
                   child_mem_codes, child_block, parent_mem_md, combined_context,
                   irp_md, irp_transcripts, origins, callers, out_vars, progress,
                   collected, log_file, other_vars>>

\* a step whose failure leaves main()
best_effort_reraised(out, next) == IF out.kind = "ok" THEN next ELSE "raised"

\* main(): "try: ... except Exception: logging.exception(...)" around
\* rename_io_control_code and around define_driver_dispatch; whatever the step
\* raises is logged and main() goes on with the statement after the try
best_effort(out, next) == next

\* main(): rename_io_control_code in its try block
Rename ==
    /\ pc = "rename"
    /\ \E out \in StepFailures \cup {Ok(<<"renamed">>)} :
        /\ call' = single_attempt("rename_io_control_code", out)
        /\ pc' = best_effort(out, "prototype")
    /\ UNCHANGED <<attempt, frame_vars, run_vars, progress, aux_vars, other_vars>>

\* main(): define_driver_dispatch in its try block
Prototype ==
    /\ pc = "prototype"
    /\ \E out \in StepFailures \cup {Ok(<<"prototype set">>)} :
        /\ call' = single_attempt("define_driver_dispatch", out)
        /\ pc' = best_effort(out, "enumerate")
    /\ UNCHANGED <<attempt, frame_vars, run_vars, progress, aux_vars, other_vars>>

\* process_major_function: list_subfunctions in its try block
EnumerateChildren ==
    /\ pc = "enumerate"
    /\ \E out \in StepFailures \cup {Ok(c) : c \in ChildLists} :
        /\ call' = single_attempt("list_subfunctions", out)
        /\ children' = IF out.kind = "ok" THEN out.val ELSE <<>>
        /\ progress' = Append(progress, [caller |-> callers[idx],
                                         enum_raised |-> out.kind # "ok",
                                         sections |-> <<>>])
        /\ pc' = after_child(0, Len(children'))
    /\ child_idx' = 1
    /\ child_sections' = <<>>
    /\ child_mem_codes' = <<>>
    /\ origins' = NoOrigins
    /\ UNCHANGED <<attempt, handler, pending, child_block, parent_mem_md,
                   combined_context, irp_md, irp_transcripts, run_vars, aux_vars, other_vars>>

\* process_major_function: one iteration of the child loop, up to the
\* description describe_child obtains
DescribeChild ==
    /\ pc = "describe"
    /\ LET child == children[child_idx]
           fn == IF get(child, "type") = "external"
                 THEN "describe_external_function" ELSE "describe_internal_function"
           entry == [address |-> get(child, "address"), name |-> get(child, "name")]
       IN  IF ~is_dict(child)
           THEN \* child.get raises in describe_child and again in the handler
                /\ pc' = uncaught("describe_child")
                /\ UNCHANGED <<call, child_idx, pending, child_sections, progress,
                               origins>>
           ELSE IF "address" \notin DOMAIN child \/ "name" \notin DOMAIN child
           THEN \* KeyError, caught by the loop
                /\ pc' = after_child(child_idx, Len(children))
                /\ child_idx' = child_idx + 1
                /\ UNCHANGED <<call, pending, child_sections, progress, origins>>
           ELSE \E out \in StepFailures \cup {Ok(d) : d \in Descriptions(idx)},
                   cached \in BOOLEAN :
                /\ cached => fn = "describe_external_function" /\ out.kind = "ok"
                /\ call' = IF cached THEN cache_hit(fn) ELSE single_attempt(fn, out)
                /\ IF out.kind = "ok" /\ fn = "describe_internal_function"
                      /\ has_memory_marker(out.val)
                   THEN /\ pending' = out.val
                        /\ pc' = "child_memory"
                        /\ origins' = [origins EXCEPT !.triggered = Append(@, child_idx)]
                        /\ UNCHANGED <<child_idx, child_sections, progress>>
                   ELSE /\ pending' = pending
                        /\ pc' = after_child(child_idx, Len(children))
                        /\ child_idx' = child_idx + 1
                        /\ IF out.kind = "ok"
                           THEN LET sec == format_child_section(child, out.val)
                                IN  /\ child_sections' = Append(child_sections, sec)
                                    /\ progress' =
                                         [progress EXCEPT ![Len(progress)].sections =
                                              Append(@, sec)]
                                    /\ origins' = [origins EXCEPT !.sections =
                                                       Append(@, child_idx)]
                           ELSE UNCHANGED <<child_sections, progress, origins>>
    /\ UNCHANGED <<attempt, handler, children, child_mem_codes, child_block,
                   parent_mem_md, combined_context, irp_md, irp_transcripts,
                   run_vars, aux_vars, other_vars>>

\* variant of marker_path that returns the bare description when the analysis
\* of the memory parameters fails
marker_path_tolerant(desc, out) ==
    IF out.kind = "ok"
    THEN [raised |-> FALSE, desc |-> desc \o <<"---">> \o out.val, mem_code |-> out.val]
    ELSE [raised |-> FALSE, desc |-> desc, mem_code |-> <<>>]

\* describe_child after has_memory_marker(desc): the markdown of
\* analyze_memory_param_markdown is appended to the description and returned as
\* mem_code; what that call raises leaves describe_child
marker_path(desc, out) ==
    IF out.kind = "ok"
    THEN [raised |-> FALSE, desc |-> desc \o <<"---">> \o out.val, mem_code |-> out.val]
    ELSE [raised |-> TRUE]

\* describe_child: analyze_memory_param_markdown for a description with a
\* marker, and the rest of the loop iteration
ChildMemoryParam ==
    /\ pc = "child_memory"
    /\ LET child == children[child_idx]
           target == [address |-> child.address, func_name |-> child.name]
       IN  \E out \in StepFailures \cup {Ok(MemoryMarkdown(target))} :
            /\ call' = single_attempt("analyze_memory_param", out)
            /\ LET r == marker_path(pending, out)
               IN  IF ~r.raised
                   THEN LET sec == format_child_section(child, r.desc)
                            kept == r.mem_code # <<>>
                        IN  /\ child_mem_codes' =
                                 IF kept
                                 THEN Append(child_mem_codes,
                                        <<"### controlled memory parameters of ", child.name>>
                                        \o strip(r.mem_code))
                                 ELSE child_mem_codes
                            /\ child_sections' = Append(child_sections, sec)
                            /\ progress' = [progress EXCEPT ![Len(progress)].sections =
                                                Append(@, sec)]
                            /\ origins' = [origins EXCEPT
                                              !.sections = Append(@, child_idx),
                                              !.excerpts = IF kept THEN Append(@, child_idx)
                                                           ELSE @]
                            /\ collected' = IF kept THEN collected + 1 ELSE collected
                   ELSE UNCHANGED <<child_mem_codes, child_sections, progress, origins,
                                    collected>>
    /\ pending' = <<>>
    /\ pc' = after_child(child_idx, Len(children))
    /\ child_idx' = child_idx + 1
    /\ UNCHANGED <<attempt, handler, children, child_block, parent_mem_md,
                   combined_context, irp_md, irp_transcripts, run_vars, resolved,
                   log_file, other_vars>>

\* process_major_function: the child block, analyze_parent_memory and the
\* combined context
AnalyzeParentMemory ==
    /\ pc = "parent_memory"
    /\ LET target == [address |-> handler.address, func_name |-> handler.func_name]
       IN  \E out \in StepFailures \cup {Ok(MemoryMarkdown(target))} :
            /\ call' = single_attempt("analyze_memory_param", out)
            /\ parent_mem_md' = IF out.kind = "ok" THEN out.val ELSE MemoryParamFailed
    /\ child_block' = child_block_of(child_sections)
    /\ combined_context' = build_context(child_block', parent_mem_md', child_mem_codes)
    /\ pc' = "irp"
    /\ UNCHANGED <<attempt, handler, children, child_idx, pending, child_sections,
                   child_mem_codes, irp_md, irp_transcripts, origins, run_vars,
                   progress, aux_vars, other_vars>>

\* process_major_function: analyze_irp_memory_section; the conversation, when
\* the backend returns, is saved before the reply is extracted, and
\* save_transcript yields None when it cannot write
AnalyzeIrp ==
    /\ pc = "irp"
    /\ LET target == [address |-> handler.address, func_name |-> handler.func_name]
           payload == [target |-> target, context |-> combined_context]
       IN  \E out \in StepFailures \cup {Ok(IrpMarkdown)}, saved \in BOOLEAN :
            /\ out.kind = "backend_error" => ~saved
            /\ call' = single_attempt("analyze_irp_memory_access", out)
            /\ IF out.kind = "backend_error"
               THEN UNCHANGED <<irp_transcripts, log_file>>
               ELSE /\ log_file' = save_transcript(log_file, payload, saved).log
                    /\ irp_transcripts' =
                          irp_transcripts
                          \o save_transcript(log_file, payload, saved).payload
            /\ irp_md' = IF out.kind = "ok" THEN out.val ELSE IrpAnalysisFailed
    /\ pc' = "emit"
    /\ UNCHANGED <<attempt, handler, children, child_idx, pending, child_sections,
                   child_mem_codes, child_block, parent_mem_md, combined_context,
                   origins, run_vars, progress, resolved, collected, other_vars>>

\* process_major_function returns its report; main() appends it and goes on
EmitReport ==
    /\ pc = "emit"
    /\ reports' = Append(reports, report_of(callers[idx], handler, child_block,
                                            parent_mem_md, irp_md))
    /\ all_transcripts' = extend(all_transcripts, irp_transcripts)
    /\ all_mem_codes' = extend(all_mem_codes, child_mem_codes)
    /\ FrameReset
    /\ pc' = after_caller(idx, Len(callers))
    /\ idx' = idx + 1
    /\ UNCHANGED <<attempt, call, callers, deep_reasoning_md, report_file, progress,
                   aux_vars, other_vars>>

\* main(): run_deep_reasoning with the client library installed; it yields
\* nothing without transcripts, without the API key, and when the request
\* fails, and otherwise the text the stream gave (specification SpecStream)
DeepReasoning ==
    /\ pc = "deep_reasoning"
    /\ \E env \in Environments :
        /\ env.transcripts = (all_transcripts # <<>>)
        /\ env.openai
        /\ env.api_key # ""
        /\ env.api_key = "<unset>" => env.create_ok
        /\ environment' = env
        /\ requests' = IF skips_deep_reasoning(env) THEN 0 ELSE 1
        /\ deep_reasoning_md' =
              IF skips_deep_reasoning(env) \/ ~env.create_ok
              THEN <<>> ELSE DeepReasoningMarkdown
    /\ pc' = "write_report"
    /\ UNCHANGED <<attempt, call, frame_vars, callers, idx, reports, all_transcripts,
                   all_mem_codes, report_file, progress, aux_vars>>
    /\ UNCHANGED <<extract_vars, dedupe_vars, cache_vars, stream_pc, stream, consumed,
                   is_answering, reasoning_parts, answer_parts, echoed, stream_result>>

\* main(): write_result_report
WriteReport ==
    /\ pc = "write_report"
    /\ report_file' = write_result_report(reports, deep_reasoning_md, all_mem_codes)
    /\ pc' = "done"
    /\ UNCHANGED <<attempt, call, frame_vars, callers, idx, reports, all_transcripts,
                   all_mem_codes, deep_reasoning_md, progress, aux_vars, other_vars>>

Next ==
    \/ DiscoverAttempt
    \/ DiscoverSleep
    \/ ResolveHandler
    \/ Rename
    \/ Prototype
    \/ EnumerateChildren
    \/ DescribeChild
    \/ ChildMemoryParam
    \/ AnalyzeParentMemory
    \/ AnalyzeIrp
    \/ EmitReport
    \/ DeepReasoning
    \/ WriteReport

Spec == Init /\ [][Next]_vars

(***************************************************************************)
(* Specification SpecTerm: the run with backend calls that may never        *)
(* return.  No step function passes a timeout to its backend, so a call     *)
(* that does not return leaves the single thread of main() inside it.       *)
(* Every call that does return, and every time.sleep, is followed by the     *)
(* next statement of the thread: weak fairness of Next.                      *)
(***************************************************************************)

\* the run is at a statement that calls a backend: bot.run of a step function,
\* or the request of run_deep_reasoning, which is sent when there are transcripts
CallsBackend ==
    \/ pc \in {"discover", "resolve", "rename", "prototype", "enumerate",
               "child_memory", "parent_memory", "irp"}
    \/ /\ pc = "describe"
       /\ is_dict(children[child_idx])
       /\ {"address", "name"} \subseteq DOMAIN children[child_idx]
    \/ pc = "deep_reasoning" /\ all_transcripts # <<>>

\* variant in which a call that does not return is given up and the statement
\* is run again
blocked_times_out(where) == where

\* "for final_responses in bot.run(messages=messages)" with a backend that never
\* answers: the thread stays in the call
blocked(where) == "blocked"

\* the step function main() or process_major_function is in at a statement
step_function(where) ==
    CASE where = "discover" -> "find_iocreatedevice_refs"
      [] where = "resolve" -> "analyze_major_function_target"
      [] where = "rename" -> "rename_io_control_code"
      [] where = "prototype" -> "define_driver_dispatch"
      [] where = "enumerate" -> "list_subfunctions"
      [] where = "describe" ->
            IF get(children[child_idx], "type") = "external"
            THEN "describe_external_function" ELSE "describe_internal_function"
      [] where \in {"child_memory", "parent_memory"} -> "analyze_memory_param"
      [] where = "irp" -> "analyze_irp_memory_access"
      [] OTHER -> "run_deep_reasoning"

\* a backend call that never returns
Hang ==
    /\ CallsBackend
    /\ pc' = blocked(pc)
    /\ call' = IF pc = "discover"
               THEN [call EXCEPT !.submits = @ + 1, !.status = "blocked"]
               ELSE [NoCall EXCEPT !.fn = step_function(pc), !.submits = 1,
                                   !.status = "blocked"]
    /\ UNCHANGED <<attempt, frame_vars, run_vars, progress, aux_vars, other_vars>>

NextTerm ==
    \/ Next
    \/ Hang

SpecTerm == Init /\ [][NextTerm]_vars /\ WF_vars(Next)

-----------------------------------------------------------------------------
(* Properties of the run (checked under Spec) *)

DiscoverCall == call.fn = "find_iocreatedevice_refs"

\* every caller of the run reached enumerate-children: its handler was resolved
AllResolved == Len(progress) = Len(callers)

\* C1: in a run in which every caller gets a resolved handler, a caller whose
\* enumerate-children raised still has its section in the written report, one
\* section per caller in caller order, its child-description block being the
\* fixed placeholder; the block of every other caller is the one its own
\* children produced.  After discovery the run is only ever aborted by a child
\* list element that is no object, never by an enumeration that raised.
C1_PartialFailureResilience ==
    /\ (report_file.written /\ AllResolved) =>
          /\ Len(report_file.main) = Len(callers)
          /\ \A i \in 1..Len(callers) :
                /\ report_file.main[i].caller = callers[i]
                /\ progress[i].caller = callers[i]
                /\ progress[i].enum_raised =>
                      report_file.main[i].child_block = NoChildDescriptions
                /\ ~progress[i].enum_raised =>
                      report_file.main[i].child_block =
                          IF progress[i].sections = <<>> THEN NoChildDescriptions
                          ELSE join("\n\n", progress[i].sections)
    /\ (pc = "raised" /\ progress # <<>>) =>
          /\ ~progress[Len(progress)].enum_raised
          /\ ~is_dict(children[child_idx])

\* two callers, both resolved: enumeration raised for the first, the second
\* had children described; the report is written with both sections
C1_Witness ==
    /\ report_file.written
    /\ Len(callers) = 2
    /\ AllResolved
    /\ progress[1].enum_raised
    /\ ~progress[2].enum_raised
    /\ Len(report_file.main) = 2
    /\ report_file.main[1].child_block = NoChildDescriptions
    /\ report_file.main[2].child_block # NoChildDescriptions

\* C2: discover-callers makes at most 3 attempts, one conversation each; only
\* an extraction failure is followed by another attempt; the 3rd extraction
\* failure in a row is re-raised to the caller; a successful attempt is the
\* last one and its result is what is returned.
C2_RetryCeiling ==
    DiscoverCall =>
        LET n == Len(call.attempts)
        IN  /\ n <= 3
            /\ call.submits = n
            /\ \A i \in 1..(n - 1) : call.attempts[i].kind = "extract_error"
            /\ (n = 3 /\ call.attempts[3].kind = "extract_error") =>
                  /\ call.status = "raised"
                  /\ call.error = "extract_error"
                  /\ pc = "raised"
            /\ (call.status = "raised" /\ call.error = "extract_error") => n = 3
            /\ call.status = "returned" =>
                  /\ call.attempts[n].kind = "ok"
                  /\ callers = dedupe_functions(call.attempts[n].val, "func_name", "address")

\* extraction failed three times: three conversations, two waits, then the failure
\* left find_iocreatedevice_refs
C2_Witness ==
    /\ DiscoverCall
    /\ call.attempts = <<ExtractError, ExtractError, ExtractError>>
    /\ call.submits = 3
    /\ call.slept = 60
    /\ call.status = "raised"
    /\ pc = "raised"

\* the failed attempts of the discovery call whose wait is over: each was followed
\* by another attempt, or the loop is about to start the next one
FollowedAttempts ==
    {i \in 1..Len(call.attempts) :
        /\ call.attempts[i].kind = "extract_error"
        /\ i < Len(call.attempts) \/ pc = "discover"}

\* every wait so far: 30 seconds per failed attempt that was followed by another
\* attempt, none for the last attempt of the call, at most two in all
BackoffPlaced ==
    DiscoverCall =>
        /\ call.slept = 30 * Cardinality(FollowedAttempts)
        /\ call.slept <= 2 * 30
        /\ pc = "sleep" =>
              /\ call.attempts[Len(call.attempts)].kind = "extract_error"
              /\ Len(call.attempts) < 3
              /\ call.printed = Len(call.attempts)
        /\ call.status \in {"returned", "raised"} => pc # "sleep"

\* a step that adds to the time slept: it is the wait of the discovery call, it
\* adds 30 seconds, the messages of the attempt that failed were printed before
\* it, and the next attempt follows it
BackoffStep ==
    call'.slept > call.slept =>
        /\ DiscoverCall /\ pc = "sleep"
        /\ call'.slept = call.slept + 30
        /\ call.printed = Len(call.attempts)
        /\ call.attempts[Len(call.attempts)].kind = "extract_error"
        /\ call'.attempts = call.attempts
        /\ pc' = "discover"

\* C36: the retry loop sleeps the fixed 30 seconds exactly once after each failed
\* attempt that is followed by another attempt, with the failed attempt's messages
\* printed before the sleep; it never sleeps after a successful attempt or after
\* the 3rd failure, so at most twice per invocation.
C36_BackoffPlacement == []BackoffPlaced /\ [][BackoffStep]_vars

\* two extraction failures, each printed and waited for, then a result
C36_Witness ==
    /\ DiscoverCall
    /\ Len(call.attempts) = 3
    /\ call.attempts[1] = ExtractError
    /\ call.attempts[2] = ExtractError
    /\ call.attempts[3].kind = "ok"
    /\ call.printed = 2
    /\ call.slept = 60
    /\ call.status = "returned"

StepAt(p) ==
    CASE p = "resolve" -> "RESOLVE_HANDLER"
      [] p = "rename" -> "RENAME"
      [] p = "prototype" -> "SET_PROTOTYPE"
      [] p = "enumerate" -> "ENUMERATE_CHILDREN"
      [] p \in {"describe", "child_memory"} -> "DESCRIBE_EACH_CHILD"
      [] p = "parent_memory" -> "ANALYZE_PARENT_MEMORY"
      [] p = "irp" -> "ANALYZE_CONTROLLED_ACCESS"
      [] p = "emit" -> "EMIT_REPORT"
      [] OTHER -> "NONE"

\* the step that follows each step for the same caller; ANALYZE_PARENT_MEMORY
\* stands for itself and BUILD_CONTEXT
Following(step) ==
    CASE step = "RESOLVE_HANDLER" -> {"RENAME"}
      [] step = "RENAME" -> {"SET_PROTOTYPE"}
      [] step = "SET_PROTOTYPE" -> {"ENUMERATE_CHILDREN"}
      [] step = "ENUMERATE_CHILDREN" -> {"DESCRIBE_EACH_CHILD", "ANALYZE_PARENT_MEMORY"}
      [] step = "DESCRIBE_EACH_CHILD" -> {"DESCRIBE_EACH_CHILD", "ANALYZE_PARENT_MEMORY"}
      [] step = "ANALYZE_PARENT_MEMORY" -> {"ANALYZE_CONTROLLED_ACCESS"}
      [] step = "ANALYZE_CONTROLLED_ACCESS" -> {"EMIT_REPORT"}
      [] OTHER -> {}

\* the run has left main() through an exception
Aborted == pc' = "raised"

\* C14: for every caller the steps run in the order RESOLVE_HANDLER, RENAME,
\* SET_PROTOTYPE, ENUMERATE_CHILDREN, DESCRIBE_EACH_CHILD once per child in list
\* order, ANALYZE_PARENT_MEMORY, BUILD_CONTEXT, ANALYZE_CONTROLLED_ACCESS,
\* EMIT_REPORT; the next caller is taken up only when the previous caller's last
\* step (its EMIT_REPORT, or its failed RESOLVE_HANDLER) has ended; and a step
\* has no conversation open when it ends, so that no two conversations overlap.
C14_StepOrder ==
    [][StepAt(pc) # "NONE" =>
        /\ idx \in 1..Len(callers)
        /\ call'.status \in {"returned", "raised"}
        /\ call'.submits <= 1
        /\ IF idx' = idx
           THEN /\ Aborted \/ StepAt(pc') \in Following(StepAt(pc))
                /\ StepAt(pc) = "RESOLVE_HANDLER" => handler' # Unset
                /\ StepAt(pc) # "ENUMERATE_CHILDREN" => children' = children
                /\ StepAt(pc') = "DESCRIBE_EACH_CHILD" =>
                      /\ child_idx' \in 1..Len(children')
                      /\ child_idx' =
                            IF StepAt(pc) = "ENUMERATE_CHILDREN" THEN 1
                            ELSE IF pc' = "child_memory" THEN child_idx
                            ELSE child_idx + 1
                /\ StepAt(pc') = "ANALYZE_PARENT_MEMORY" =>
                      child_idx' = Len(children') + 1
                /\ StepAt(pc) = "ANALYZE_PARENT_MEMORY" =>
                      combined_context' =
                          build_context(child_block', parent_mem_md', child_mem_codes)
           ELSE /\ idx' = idx + 1
                /\ \/ StepAt(pc) = "EMIT_REPORT"
                   \/ StepAt(pc) = "RESOLVE_HANDLER" /\ call'.status = "raised"
                /\ pc' = IF idx < Len(callers) THEN "resolve" ELSE "deep_reasoning"
                /\ handler' = Unset /\ children' = <<>>]_vars

\* the second caller is at its last step with both of its children described in
\* list order, after the first caller's report was appended
C14_Witness ==
    /\ pc = "emit"
    /\ idx = 2
    /\ Len(reports) = 1
    /\ Len(children) = 2
    /\ origins.sections = <<1, 2>>
    /\ combined_context # <<>>

\* the caller loop is over and main() goes on to the report
LoopOver == pc \in {"deep_reasoning", "write_report", "done"}

\* the transcripts the run holds, those of the caller in progress included
TranscriptsHeld == all_transcripts \o irp_transcripts

\* C15: a caller whose RESOLVE_HANDLER failed is skipped, and only it: no later
\* step runs for it, it has no report section, no transcript and no code excerpt
\* (the failed step leaves the lists, the log and the frame untouched), no
\* enumeration is recorded for it, and the loop goes on: when it is over every
\* caller was taken up and every caller whose handler was resolved has its
\* section.
C15_ResolveFailureSkipsCaller ==
    /\ [](\A i \in 1..Len(resolved) : ~resolved[i] =>
            /\ idx > i
            /\ \A k \in 1..Len(reports) : reports[k].caller # callers[i]
            /\ \A k \in 1..Len(progress) : progress[k].caller # callers[i]
            /\ \A k \in 1..Len(TranscriptsHeld) :
                  TranscriptsHeld[k].target # HandlerOf(callers[i]))
    /\ [](LoopOver =>
            /\ Len(resolved) = Len(callers)
            /\ \A i \in 1..Len(callers) :
                  resolved[i] => \E k \in 1..Len(reports) : reports[k].caller = callers[i])
    /\ [][(pc = "resolve" /\ call'.status = "raised") =>
            /\ resolved' = Append(resolved, FALSE)
            /\ idx' = idx + 1
            /\ pc' \in {"resolve", "deep_reasoning"}
            /\ UNCHANGED <<frame_vars, out_vars, progress, log_file>>]_vars

\* the first of two callers failed RESOLVE_HANDLER and the report was written
\* with the section of the second one only
C15_Witness ==
    /\ pc = "done"
    /\ resolved = <<FALSE, TRUE>>
    /\ Len(report_file.main) = 1
    /\ report_file.main[1].caller = callers[2]
    /\ Len(all_transcripts) = 1

\* main() has ended: normally, by its early return, or through an exception
RunEnded == pc \in {"done", "returned", "raised"}

\* a backend call of the run did not return
Blocked == call.status = "blocked"

\* the passes of the run: at most 3 discovery attempts, the caller loop at most
\* one place past the last caller with one resolution per caller taken up, the
\* child loop at most one place past the last child
PassBounds ==
    /\ DiscoverCall => Len(call.attempts) <= 3 /\ call.submits <= 3
    /\ attempt <= 2
    /\ idx <= Len(callers) + 1
    /\ Len(resolved) <= Len(callers)
    /\ Len(resolved) \in {idx - 1, idx}
    /\ child_idx <= Len(children) + 1

\* no loop of the run goes back: the caller index never decreases, and for one
\* caller the child index never decreases
PassStep ==
    /\ idx' >= idx
    /\ callers # <<>> => callers' = callers
    /\ (idx' = idx /\ pc # "enumerate") =>
          (children' = children /\ child_idx' >= child_idx)

\* C37: if every backend call and every retry sleep eventually returns, the run
\* eventually ends, after at most 3 discovery attempts and one pass over each
\* caller and each of its children; if some backend call never returns, no
\* later step ever runs and no report is written.
C37_Termination ==
    /\ ([]~Blocked) => <>RunEnded
    /\ []PassBounds
    /\ [][PassStep]_vars
    /\ [][Blocked => UNCHANGED vars]_vars
    /\ [](Blocked => ~report_file.written)

\* a run that took three discovery attempts, passed over two callers with two
\* children each and ended with the report written
C37_Witness ==
    /\ pc = "done"
    /\ report_file.written
    /\ attempt = 2
    /\ Len(callers) = 2
    /\ Len(reports) = 2
    /\ \E k \in 1..Len(progress) : Len(progress[k].sections) = 2

\* the controlled-access call of the second caller never returned: the section
\* of the first caller was assembled, and nothing was written
C37_WitnessBlocked ==
    /\ Blocked
    /\ call.fn = "analyze_irp_memory_access"
    /\ Len(reports) = 1
    /\ idx = 2
    /\ ~report_file.written

\* C16 (as stated, for the runs in which discovery found callers): whichever
\* steps fail, the report writer has been invoked when the run ends, and no
\* step failure ends the run abnormally.
C16_ReportAlwaysWritten ==
    (RunEnded /\ callers # <<>>) => (report_file.written /\ pc = "done")

DiscoverFailed == DiscoverCall /\ call.status = "raised"

\* C17: when discover-callers has failed, after its third extraction failure or
\* at a backend failure, the run is over: no caller was taken up, no step ran,
\* nothing was logged or written, no conversation beyond those of the discovery
\* was submitted, and no step is ever taken from there.
C17_DiscoverFailureAborts ==
    /\ [](DiscoverFailed =>
            /\ pc = "raised"
            /\ callers = <<>> /\ idx = 0
            /\ resolved = <<>> /\ progress = <<>> /\ handler = Unset
            /\ reports = <<>> /\ all_transcripts = <<>>
            /\ log_file = <<EarlierRecord>>
            /\ ~report_file.written
            /\ call.submits = Len(call.attempts) /\ call.submits <= MaxAttempts)
    /\ [][pc # "raised"]_vars

\* discover-callers failed extraction three times and the run ended there
C17_Witness ==
    /\ DiscoverFailed
    /\ call.error = "extract_error"
    /\ Len(call.attempts) = MaxAttempts
    /\ pc = "raised"
    /\ resolved = <<>>
    /\ ~report_file.written

ConversationCompleted == call'.attempts[1].kind # "backend_error"

Increasing(positions) ==
    \A k \in 1..(Len(positions) - 1) : positions[k] < positions[k + 1]

\* the position of a caller in the deduplicated discovery result (0: not in it)
CallerPos(caller) ==
    IF \E i \in 1..Len(callers) : callers[i] = caller
    THEN CHOOSE i \in 1..Len(callers) : callers[i] = caller
    ELSE 0

\* the position of the caller whose handler a transcript targets
TargetPos(target) ==
    IF \E i \in 1..Len(callers) : HandlerOf(callers[i]) = target
    THEN CHOOSE i \in 1..Len(callers) : HandlerOf(callers[i]) = target
    ELSE 0

InFrame == pc \in {"describe", "child_memory", "parent_memory", "irp", "emit"}

\* C19: the caller sections of the report and the transcripts of the run are in
\* caller-discovery order (the order of the deduplicated discovery result);
\* within a caller the child sections and the code excerpts are those of
\* children at increasing positions of the enumerated list, and they enter the
\* caller's section and the run's excerpt list in that order.
C19_Ordering ==
    /\ [](/\ \A k \in 1..Len(reports) : CallerPos(reports[k].caller) \in 1..(idx - 1)
          /\ Increasing([k \in 1..Len(reports) |-> CallerPos(reports[k].caller)])
          /\ \A k \in 1..Len(TranscriptsHeld) : TargetPos(TranscriptsHeld[k].target) \in 1..idx
          /\ Increasing([k \in 1..Len(TranscriptsHeld) |->
                            TargetPos(TranscriptsHeld[k].target)])
          /\ report_file.written => report_file.main = reports)
    /\ [](InFrame =>
          /\ Len(origins.sections) = Len(child_sections)
          /\ Len(origins.excerpts) = Len(child_mem_codes)
          /\ Increasing(origins.sections) /\ Increasing(origins.excerpts)
          /\ \A k \in 1..Len(child_sections) :
                /\ origins.sections[k] \in 1..Len(children)
                /\ SubSeq(child_sections[k], 1, 4) =
                      <<"#### ", children[origins.sections[k]].name,
                        children[origins.sections[k]].type,
                        children[origins.sections[k]].address>>
          /\ \A k \in 1..Len(child_mem_codes) :
                /\ origins.excerpts[k] \in 1..Len(children)
                /\ child_mem_codes[k][2] = children[origins.excerpts[k]].name
          /\ pc \in {"irp", "emit"} => child_block = child_block_of(child_sections))
    /\ [][pc = "emit" =>
            /\ reports' = Append(reports, reports'[Len(reports')])
            /\ reports'[Len(reports')].caller = callers[idx]
            /\ reports'[Len(reports')].child_block = child_block
            /\ all_transcripts' = all_transcripts \o irp_transcripts
            /\ all_mem_codes' = all_mem_codes \o child_mem_codes]_vars

\* the second caller is about to emit its report: an external and an internal
\* child gave their sections in list order, the internal one its excerpt, and
\* the first caller's section and transcript are already in the lists
C19_Witness ==
    /\ pc = "emit"
    /\ idx = 2
    /\ Len(reports) = 1 /\ reports[1].caller = callers[1]
    /\ Len(all_transcripts) = 1 /\ Len(irp_transcripts) = 1
    /\ origins.sections = <<1, 2>> /\ origins.excerpts = <<2>>
    /\ children[1].type = "external" /\ children[2].type = "internal"

\* a text contains one of the two sentinel substrings
ContainsSentinel(text) == "# MEM #" \in Range(text) \/ "# MAP #" \in Range(text)

\* a child section carries the markdown of a memory-parameter analysis
HasAnalysis(section) == "---" \in Range(section)

ChildOf(k) == children[origins.sections[k]]

ContextHead ==
    <<"### child descriptions">> \o child_block
    \o <<"### memory parameter analysis">> \o parent_mem_md
ContextCode ==
    <<"### controlled memory parameter code">> \o join("\n\n", child_mem_codes)

\* the context is built and the controlled-access step has it or has had it
ContextBuilt == pc \in {"irp", "emit"}

\* C21 (as stated): the context is the child-descriptions section, then the
\* parent-memory-parameters section, then the code section, which is present
\* exactly when a child of the caller triggered the memory-parameter side path;
\* the step gets the handler target and this context, nothing else.
C21_CodeSectionIffTriggered ==
    ContextBuilt =>
        /\ combined_context =
              ContextHead \o (IF origins.triggered # <<>> THEN ContextCode ELSE <<>>)
        /\ \A k \in 1..Len(irp_transcripts) :
              irp_transcripts[k] =
                  [target |-> [address |-> handler.address, func_name |-> handler.func_name],
                   context |-> combined_context]

\* C21 (amended): the code section is present exactly when the side path of a
\* child of the caller produced markdown; a child whose side path was triggered
\* and failed gives no excerpt.
C21_ContextComposition ==
    ContextBuilt =>
        /\ combined_context =
              ContextHead \o (IF origins.excerpts # <<>> THEN ContextCode ELSE <<>>)
        /\ Len(child_mem_codes) = Len(origins.excerpts)
        /\ \A k \in 1..Len(origins.excerpts) : origins.excerpts[k] \in Range(origins.triggered)
        /\ \A k \in 1..Len(irp_transcripts) :
              irp_transcripts[k] =
                  [target |-> [address |-> handler.address, func_name |-> handler.func_name],
                   context |-> combined_context]

\* the controlled-access step ran with a context of three sections: one child
\* triggered the side path and gave its excerpt, the other triggered it in vain
C21_Witness ==
    /\ pc = "emit"
    /\ origins.triggered = <<1, 2>> /\ origins.excerpts = <<2>>
    /\ Len(irp_transcripts) = 1
    /\ irp_transcripts[1].context = ContextHead \o ContextCode
    /\ parent_mem_md = MemoryParamFailed

\* C23 (as stated): a backend failure in discover-callers, the retried step,
\* counts as a failed attempt like an extraction failure: it is followed by the
\* wait and the next attempt, and leaves the step only at the third attempt.
C23_BackendFailureRetried ==
    (DiscoverCall /\ call.status = "raised" /\ call.error = "backend_error") =>
        /\ call.submits = MaxAttempts
        /\ call.slept = (MaxAttempts - 1) * wait_sec

\* the deep-reasoning stage has run and found no API credential
CredentialAbsent ==
    "api_key" \in DOMAIN environment /\ environment.api_key \in {"<unset>", ""}

\* C24: when the API credential of the reasoning backend is absent the stage is
\* skipped without raising: no request was sent, the stage returned nothing,
\* the run goes on to the report writer, and the written report holds the
\* placeholder in its deep-reasoning section.
C24_NoCredentialSkipsStage ==
    CredentialAbsent =>
        /\ requests = 0
        /\ deep_reasoning_md = <<>>
        /\ pc \in {"write_report", "done"}
        /\ pc = "done" => report_file.written /\ report_file.deep = NoDeepReasoning

\* transcripts were collected, the credential is absent, and the report was
\* written with the placeholder
C24_Witness ==
    /\ CredentialAbsent
    /\ environment.transcripts
    /\ all_transcripts # <<>>
    /\ requests = 0
    /\ pc = "done"
    /\ report_file.deep = NoDeepReasoning

\* C25: every written report has the main per-caller sections (one per caller
\* that reached EMIT_REPORT, in order), then the deep-reasoning section, which
\* holds the text of the stage or, when the stage produced nothing, the
\* placeholder, then the code summary section, which is present if and only if
\* at least one code excerpt was collected during the run (and then holds the
\* excerpts).
C25_ReportComposition ==
    report_file.written =>
        /\ report_file.main = reports
        /\ SubSeq(report_file.lines, 1, 3) = <<"# report", DeepHeading, "deep">>
        /\ report_file.deep =
              IF deep_reasoning_md = <<>> THEN NoDeepReasoning ELSE deep_reasoning_md
        /\ IF collected > 0
           THEN /\ report_file.lines =
                      <<"# report", DeepHeading, "deep", MemSummaryHeading, "codes">>
                /\ Len(report_file.mem_summary) = collected
           ELSE /\ report_file.lines = <<"# report", DeepHeading, "deep">>
                /\ report_file.mem_summary = <<>>

\* a report with a caller section, the text of the stage and the code summary
C25_Witness ==
    /\ report_file.written
    /\ Len(report_file.main) = 2
    /\ report_file.deep = DeepReasoningMarkdown
    /\ collected = 1
    /\ MemSummaryHeading \in Range(report_file.lines)

\* a report without code summary and with the placeholder
C25_WitnessPlain ==
    /\ report_file.written
    /\ collected = 0
    /\ report_file.deep = NoDeepReasoning
    /\ MemSummaryHeading \notin Range(report_file.lines)

\* the child loop of the caller is over and its block was built
BlockBuilt == pc \in {"irp", "emit"}

\* children of the caller at hand that gave no section: describe_child raised
FailedChildren == {i \in 1..Len(children) : i \notin Range(origins.sections)}

\* the run ended inside the child loop
ChildLoopStopped == pc = "raised" /\ children # <<>>

\* C28: a failure while describing one child does not stop the child loop:
\* every remaining child of the caller is still described, and the failing
\* child's contribution to the child-description block is a placeholder.
C28_ChildFailureReplaced ==
    /\ ~ChildLoopStopped
    /\ BlockBuilt =>
          /\ child_idx = Len(children) + 1
          /\ FailedChildren # {} => Range(NoChildDescriptions) \subseteq Range(child_block)

\* what holds of the loop: a child that is an object and whose description
\* fails is passed over, the children after it are still taken up, and the
\* block is made of the sections of the children that succeeded, the
\* placeholder standing for the whole block only when there is no section; the
\* loop stops, and the run with it, only at a child that is no object
ChildFailureSkipsChild ==
    /\ ChildLoopStopped =>
          child_idx \in 1..Len(children) /\ ~is_dict(children[child_idx])
    /\ BlockBuilt =>
          /\ child_idx = Len(children) + 1
          /\ Len(child_sections) = Len(children) - Cardinality(FailedChildren)
          /\ child_block = IF FailedChildren = 1..Len(children)
                           THEN NoChildDescriptions
                           ELSE join("\n\n", child_sections)

\* the first of two children failed, the second was described, and the block
\* holds the section of the second and no placeholder
ChildFailureSkipsChild_Witness ==
    /\ BlockBuilt
    /\ Len(children) = 2
    /\ FailedChildren = {1}
    /\ call.status = "returned"
    /\ child_block = child_sections[1]
    /\ ~(Range(NoChildDescriptions) \subseteq Range(child_block))

\* children of the caller at hand whose description held a marker and whose
\* analysis of the memory parameters failed
MarkerPathFailed ==
    {i \in Range(origins.triggered) :
        /\ i \notin Range(origins.excerpts)
        /\ i < child_idx \/ pc \notin {"describe", "child_memory"}}

\* the step in which the analysis called for a marker fails: no section and no
\* excerpt is added, nothing of the caller's frame but the place in the child
\* loop changes, and the loop goes on with the child after this one, or to the
\* block when this was the last child
MarkerPathFailureStep ==
    (pc = "child_memory" /\ call'.status = "raised") =>
        /\ call'.fn = "analyze_memory_param"
        /\ child_sections' = child_sections
        /\ child_mem_codes' = child_mem_codes
        /\ progress' = progress
        /\ UNCHANGED <<children, callers, idx, handler, reports, all_mem_codes>>
        /\ child_idx' = child_idx + 1
        /\ pc' = IF child_idx < Len(children) THEN "describe" ELSE "parent_memory"

\* such a child has no section and no excerpt among those collected for the
\* caller, whose number is that of the children that gave one
MarkerPathFailureSkipsChild ==
    /\ \A i \in MarkerPathFailed : i \notin Range(origins.sections)
    /\ BlockBuilt =>
          /\ Len(child_sections) = Len(children) - Cardinality(FailedChildren)
          /\ Len(child_mem_codes) = Len(origins.excerpts)
          /\ MarkerPathFailed \subseteq FailedChildren
          /\ child_idx = Len(children) + 1

\* C38: when a child's description succeeds and contains a marker but the
\* analyze-memory-parameters call it triggers fails, the whole child is treated
\* as failed: no child section and no code excerpt of it reaches the caller's
\* report or context, and the remaining children are still processed.
C38_MarkerPathFailureFailsChild ==
    [][MarkerPathFailureStep]_vars /\ []MarkerPathFailureSkipsChild

\* the first of two children held a marker and its analysis failed; the second
\* was described, and the block is the section of the second alone
C38_Witness ==
    /\ BlockBuilt
    /\ Len(children) = 2
    /\ MarkerPathFailed = {1}
    /\ origins.sections = <<2>>
    /\ origins.excerpts = <<>>
    /\ child_block = child_sections[1]
    /\ child_mem_codes = <<>>

\* a step of RENAME or SET_PROTOTYPE: the conversation of the step ends, by a
\* return or by an exception, the next step is the one that follows in the
\* order of steps, and nothing but the call record has changed
BestEffortStep ==
    /\ call'.fn = IF pc = "rename" THEN "rename_io_control_code"
                  ELSE "define_driver_dispatch"
    /\ call'.status \in {"returned", "raised"}
    /\ pc' = IF pc = "rename" THEN "prototype" ELSE "enumerate"
    /\ UNCHANGED <<frame_vars, run_vars, progress, aux_vars>>

\* C29: RENAME and SET_PROTOTYPE are best-effort.  Whether RENAME returns or
\* fails, SET_PROTOTYPE is attempted next, and whether SET_PROTOTYPE returns or
\* fails, ENUMERATE_CHILDREN runs next for the same caller; neither step, failed
\* or not, touches anything the caller's report section is made from (the
\* caller, its handler, the frame of the caller, the reports so far), and every
\* report section shows the handler as RESOLVE_HANDLER gave it.
C29_BestEffort ==
    /\ [][(pc = "rename" \/ pc = "prototype") => BestEffortStep]_vars
    /\ [](\A k \in 1..Len(reports) : reports[k].handler = HandlerOf(reports[k].caller))

\* SET_PROTOTYPE has failed and the caller is at ENUMERATE_CHILDREN with its
\* handler
C29_Witness ==
    /\ pc = "enumerate"
    /\ call.fn = "define_driver_dispatch"
    /\ call.status = "raised"
    /\ handler = HandlerOf(callers[idx])

\* RENAME has failed and the caller is at SET_PROTOTYPE
C29_WitnessRename ==
    /\ pc = "prototype"
    /\ call.fn = "rename_io_control_code"
    /\ call.status = "raised"

\* the callers taken up so far whose handler was resolved
ResolvedCallers == {i \in 1..Len(resolved) : resolved[i]}

\* C30: every caller whose handler was resolved gets the controlled-access step
\* once, whatever failed before it, and reaches EMIT_REPORT even when that step
\* fails, its block then being the fixed failure placeholder: when the run is
\* over every caller was taken up, the report sections are as many as the
\* callers with a resolved handler, each holding the step's markdown or the
\* placeholder, and a caller at EMIT_REPORT has the placeholder exactly when
\* the step raised.
C30_IrpOncePerResolvedCaller ==
    /\ (RunEnded /\ callers # <<>>) =>
          /\ Len(resolved) = Len(callers)
          /\ Len(reports) = Cardinality(ResolvedCallers)
          /\ \A k \in 1..Len(reports) :
                reports[k].irp_md \in {IrpMarkdown, IrpAnalysisFailed}
    /\ pc = "emit" =>
          /\ call.fn = "analyze_irp_memory_access"
          /\ irp_md = IF call.status = "raised" THEN IrpAnalysisFailed ELSE IrpMarkdown

\* what holds: the same, for the runs that are not ended by a child that is no
\* object (a run so ended has a resolved caller without the step and without a
\* section)
IrpOnceUnlessAborted ==
    /\ (pc \in {"deep_reasoning", "write_report", "done"}) =>
          /\ Len(resolved) = Len(callers)
          /\ Len(reports) = Cardinality(ResolvedCallers)
          /\ \A k \in 1..Len(reports) :
                reports[k].irp_md \in {IrpMarkdown, IrpAnalysisFailed}
    /\ pc = "emit" =>
          /\ call.fn = "analyze_irp_memory_access"
          /\ irp_md = IF call.status = "raised" THEN IrpAnalysisFailed ELSE IrpMarkdown
    /\ (pc = "raised" /\ callers # <<>>) =>
          /\ ChildLoopStopped
          /\ ~is_dict(children[child_idx])
          /\ Len(reports) < Cardinality(ResolvedCallers)

\* enumeration failed, the parent-memory step failed, the controlled-access
\* step failed, and the caller is at EMIT_REPORT with the placeholders
IrpOnceUnlessAborted_Witness ==
    /\ pc = "emit"
    /\ progress[Len(progress)].enum_raised
    /\ parent_mem_md = MemoryParamFailed
    /\ call.status = "raised"
    /\ irp_md = IrpAnalysisFailed

(***************************************************************************)
(* run_deep_reasoning: the streaming assembler of the deep-reasoning pass.  *)
(* A text is a sequence of tokens, a fragment is a text, and a field of a   *)
(* chunk is None, a string, a list or a dict, as the backend may send it.   *)
(***************************************************************************)

MaxChunks == 4

NoneField == [kind |-> "none", text |-> <<>>, items |-> <<>>]
Str(t) == [kind |-> "str", text |-> t, items |-> <<>>]
DictField(t) == [kind |-> "dict", text |-> t, items |-> <<>>]
ListField(fields) == [kind |-> "list", text |-> <<>>, items |-> fields]

\* json.dumps(field) of a dict that has no usable text
JsonDump == <<"{}">>

\* lines 337-371; a dict item of a list gives its text or "", a dict on its own
\* gives its text or its JSON dump
RECURSIVE _stringify_stream_field(_)
_stringify_stream_field(field) ==
    CASE field.kind = "none" -> <<>>
      [] field.kind = "str" -> field.text
      [] field.kind = "list" ->
            IF field.items = <<>> THEN <<>>
            ELSE (IF Head(field.items).kind = "dict"
                  THEN Head(field.items).text
                  ELSE _stringify_stream_field(Head(field.items)))
                 \o _stringify_stream_field(ListField(Tail(field.items)))
      [] field.kind = "dict" ->
            IF field.text # <<>> THEN field.text ELSE JsonDump

\* a streamed chunk: choices[0].delta with its three channels, or usage only
Chunk(rc, th, ct) ==
    [choices |-> TRUE, delta |-> TRUE, usage |-> FALSE,
     reasoning_content |-> rc, thinking |-> th, content |-> ct]
Reasoning(t) == Chunk(Str(t), NoneField, NoneField)
Answer(t) == Chunk(NoneField, NoneField, Str(t))
UsageChunk ==
    [choices |-> FALSE, delta |-> FALSE, usage |-> TRUE,
     reasoning_content |-> NoneField, thinking |-> NoneField, content |-> NoneField]
NoDeltaChunk ==
    [choices |-> TRUE, delta |-> FALSE, usage |-> FALSE,
     reasoning_content |-> NoneField, thinking |-> NoneField, content |-> NoneField]

WhySpace == <<"why", " ">>
ChunkPool ==
    { Reasoning(WhySpace), Reasoning(<<"so">>), Answer(<<"yes">>),
      Reasoning(<<"ignored">>),
      UsageChunk, NoDeltaChunk,
      \* both channels in one chunk
      Chunk(Str(<<"so">>), NoneField, Str(<<" ", "yes">>)),
      \* the older field name, sent as a list of parts
      Chunk(NoneField, ListField(<<DictField(<<"so">>), Str(<<" ">>)>>), NoneField),
      \* an empty answer string and an empty reasoning dict
      Chunk(DictField(<<>>), NoneField, Str(<<>>)) }

Streams == SeqsUpTo(ChunkPool, MaxChunks)

\* lines 434-436: reasoning_content, else thinking
thinking_of(chunk) ==
    IF _stringify_stream_field(chunk.reasoning_content) # <<>>
    THEN _stringify_stream_field(chunk.reasoning_content)
    ELSE _stringify_stream_field(chunk.thinking)

content_of(chunk) == _stringify_stream_field(chunk.content)

\* a loop that echoes every reasoning fragment
echo_thinking_always(answering, thinking) == thinking

\* lines 437-439: what the loop prints of a reasoning fragment
echo_thinking(answering, thinking) ==
    IF thinking # <<>> /\ ~answering THEN thinking ELSE <<>>

\* a chunk the loop looks into: it has choices and a delta
has_delta(chunk) == chunk.choices /\ chunk.delta

Banner == "[=] deep reasoning output"
ThinkingHeader == "==== thinking ===="
AnswerHeader == "==== answer ===="
UsageLine == "Usage:"
DoneLine == "[=] deep reasoning done"

NoReasoning == <<"(no reasoning)">>
NoAnswer == <<"(no answer)">>

\* "".join(parts)
RECURSIVE concat(_)
concat(parts) == IF parts = <<>> THEN <<>> ELSE Head(parts) \o concat(Tail(parts))

\* the returned text without the two trims of lines 452-453
combined_sections_untrimmed(rparts, aparts) ==
    <<"### reasoning", "\n\n">>
    \o (IF concat(rparts) # <<>> THEN concat(rparts) ELSE NoReasoning)
    \o <<"\n\n", "### answer", "\n\n">>
    \o (IF concat(aparts) # <<>> THEN concat(aparts) ELSE NoAnswer)

\* lines 452-460: both accumulators joined, trimmed, under fixed headings
combined_sections(rparts, aparts) ==
    strip(<<"### reasoning", "\n\n">>
          \o (IF strip(concat(rparts)) # <<>> THEN strip(concat(rparts)) ELSE NoReasoning)
          \o <<"\n\n", "### answer", "\n\n">>
          \o (IF strip(concat(aparts)) # <<>> THEN strip(concat(aparts)) ELSE NoAnswer))


InitStream ==
    /\ stream_pc = "start"
    /\ environment \in Environments
    /\ stream = <<>>
    /\ consumed = <<>>
    /\ is_answering = FALSE
    /\ reasoning_parts = <<>>
    /\ answer_parts = <<>>
    /\ echoed = <<>>
    /\ requests = 0
    /\ stream_result = [returned |-> FALSE]
    /\ ExtractIdle
    /\ DedupeIdle
    /\ CacheIdle
    /\ PipelineIdle

\* lines 380-421: the early returns, the request, the banner
StartDeepReasoning ==
    /\ stream_pc = "start"
    /\ IF skips_deep_reasoning(environment)
       THEN /\ stream_result' = [returned |-> TRUE, val |-> <<>>]
            /\ stream_pc' = "returned"
            /\ UNCHANGED <<stream, echoed, requests>>
       ELSE /\ requests' = requests + 1
            /\ IF ~environment.create_ok
               THEN /\ stream_result' = [returned |-> TRUE, val |-> <<>>]
                    /\ stream_pc' = "returned"
                    /\ UNCHANGED <<stream, echoed>>
               ELSE /\ stream' \in Streams
                    /\ echoed' = <<Banner, ThinkingHeader>>
                    /\ stream_pc' = "reading"
                    /\ UNCHANGED stream_result
    /\ UNCHANGED <<environment, consumed, is_answering, reasoning_parts, answer_parts>>
    /\ UNCHANGED <<extract_vars, dedupe_vars, cache_vars, pipeline_vars>>

\* lines 423-447: one iteration of "for chunk in stream"
ReadChunk ==
    /\ stream_pc = "reading"
    /\ stream # <<>>
    /\ stream' = Tail(stream)
    /\ consumed' = Append(consumed, Head(stream))
    /\ IF ~Head(stream).choices
       THEN /\ echoed' = IF Head(stream).usage THEN Append(echoed, UsageLine) ELSE echoed
            /\ UNCHANGED <<is_answering, reasoning_parts, answer_parts>>
       ELSE IF ~Head(stream).delta
       THEN UNCHANGED <<echoed, is_answering, reasoning_parts, answer_parts>>
       ELSE /\ reasoning_parts' =
                  IF thinking_of(Head(stream)) # <<>>
                  THEN Append(reasoning_parts, thinking_of(Head(stream)))
                  ELSE reasoning_parts
            /\ answer_parts' =
                  IF content_of(Head(stream)) # <<>>
                  THEN Append(answer_parts, content_of(Head(stream)))
                  ELSE answer_parts
            /\ is_answering' = (is_answering \/ content_of(Head(stream)) # <<>>)
            /\ echoed' =
                  echoed
                  \o echo_thinking(is_answering, thinking_of(Head(stream)))
                  \o (IF content_of(Head(stream)) # <<>> /\ ~is_answering
                      THEN <<AnswerHeader>> ELSE <<>>)
                  \o content_of(Head(stream))
    /\ UNCHANGED <<stream_pc, environment, requests, stream_result>>
    /\ UNCHANGED <<extract_vars, dedupe_vars, cache_vars, pipeline_vars>>

\* line 423: the stream is exhausted
StreamEnds ==
    /\ stream_pc = "reading"
    /\ stream = <<>>
    /\ stream_pc' = "finishing"
    /\ UNCHANGED <<environment, stream, consumed, is_answering, reasoning_parts,
                   answer_parts, echoed, requests, stream_result>>
    /\ UNCHANGED <<extract_vars, dedupe_vars, cache_vars, pipeline_vars>>

\* variant of the handler that starts the accumulator afresh
stream_error_discards(parts) == <<>>

\* lines 448-449: "except Exception: logging.exception(...)"; the handler does
\* not touch the accumulator and control falls through to line 452
stream_error_caught(parts) == parts

\* lines 448-449: reading the stream raises; what was accumulated is kept
StreamRaises ==
    /\ stream_pc = "reading"
    /\ stream # <<>>
    /\ stream_pc' = "finishing"
    /\ reasoning_parts' = stream_error_caught(reasoning_parts)
    /\ answer_parts' = stream_error_caught(answer_parts)
    /\ UNCHANGED <<environment, stream, consumed, is_answering, echoed, requests,
                   stream_result>>
    /\ UNCHANGED <<extract_vars, dedupe_vars, cache_vars, pipeline_vars>>

\* lines 450-460
FinishDeepReasoning ==
    /\ stream_pc = "finishing"
    /\ echoed' = Append(echoed, DoneLine)
    /\ stream_result' =
          [returned |-> TRUE,
           val |-> combined_sections(reasoning_parts, answer_parts)]
    /\ stream_pc' = "returned"
    /\ UNCHANGED <<environment, stream, consumed, is_answering, reasoning_parts,
                   answer_parts, requests>>
    /\ UNCHANGED <<extract_vars, dedupe_vars, cache_vars, pipeline_vars>>

NextStream ==
    \/ StartDeepReasoning
    \/ ReadChunk
    \/ StreamEnds
    \/ StreamRaises
    \/ FinishDeepReasoning

SpecStream == InitStream /\ [][NextStream]_vars

(***************************************************************************)
(* Properties of the streaming assembler                                   *)
(***************************************************************************)

\* the non-empty fragments a chunk sequence carries on each channel
ReasoningFragments(chunks) ==
    SelectSeq([i \in 1..Len(chunks) |->
                  IF has_delta(chunks[i]) THEN thinking_of(chunks[i]) ELSE <<>>],
              LAMBDA t : t # <<>>)
AnswerFragments(chunks) ==
    SelectSeq([i \in 1..Len(chunks) |->
                  IF has_delta(chunks[i]) THEN content_of(chunks[i]) ELSE <<>>],
              LAMBDA t : t # <<>>)

\* the chunks up to and including the one that carries the first answer fragment
UpToFirstAnswer(chunks) ==
    IF AnswerFragments(chunks) = <<>> THEN chunks
    ELSE SubSeq(chunks, 1,
                Min({i \in 1..Len(chunks) : AnswerFragments(SubSeq(chunks, 1, i)) # <<>>}))

\* the returned text for a reasoning text and an answer text
Yielded(reasoning_text, answer_text) ==
    <<"### reasoning", "\n\n">>
    \o (IF reasoning_text = <<>> THEN NoReasoning ELSE reasoning_text)
    \o <<"\n\n", "### answer", "\n\n">>
    \o (IF answer_text = <<>> THEN NoAnswer ELSE answer_text)

ExampleStream ==
    <<Reasoning(WhySpace), Reasoning(<<"so">>), Answer(<<"yes">>), Reasoning(<<"ignored">>)>>

\* the assembler has read a stream and returned
Assembled == stream_pc = "returned" /\ echoed # <<>>

\* C12 (as stated): the yielded answer text is the concatenation of all answer
\* fragments and the yielded reasoning text is the concatenation of the
\* reasoning fragments received before the first answer fragment; the example
\* stream yields reasoning "why so" and answer "yes".
C12_ReasoningBeforeAnswer ==
    Assembled =>
        /\ stream_result.val =
              Yielded(strip(concat(ReasoningFragments(UpToFirstAnswer(consumed)))),
                      strip(concat(AnswerFragments(consumed))))
        /\ consumed = ExampleStream =>
              stream_result.val = Yielded(<<"why", " ", "so">>, <<"yes">>)

\* C12 (amended): the yielded answer text is the trimmed in-order concatenation
\* of all answer fragments and the yielded reasoning text is the trimmed
\* in-order concatenation of all reasoning fragments, those received after the
\* first answer fragment included; the example stream yields reasoning
\* "why soignored" and answer "yes".
C12_ChannelSplit ==
    Assembled =>
        /\ stream_result.val =
              Yielded(strip(concat(ReasoningFragments(consumed))),
                      strip(concat(AnswerFragments(consumed))))
        /\ consumed = ExampleStream =>
              stream_result.val = Yielded(<<"why", " ", "so", "ignored">>, <<"yes">>)

\* the example stream was read to its end and the text was returned
C12_Witness ==
    /\ Assembled
    /\ consumed = ExampleStream
    /\ stream = <<>>
    /\ stream_result.val = Yielded(<<"why", " ", "so", "ignored">>, <<"yes">>)

\* the loop has just processed a chunk that carries a reasoning fragment
ReadsReasoning ==
    /\ consumed' # consumed
    /\ has_delta(Head(stream))
    /\ thinking_of(Head(stream)) # <<>>

\* C13: the assembler is THINKING until the first chunk that yields a non-empty
\* answer fragment, ANSWERING from then on and never THINKING again; a reasoning
\* fragment is echoed live exactly when it arrives while the assembler is
\* THINKING; every reasoning fragment, before or after the transition, is
\* appended to the reasoning accumulator in arrival order.
C13_AssemblerStateMachine ==
    /\ [](is_answering <=> AnswerFragments(consumed) # <<>>)
    /\ [](reasoning_parts = ReasoningFragments(consumed))
    /\ [][/\ is_answering => is_answering'
          /\ ReadsReasoning =>
                /\ reasoning_parts' = Append(reasoning_parts, thinking_of(Head(stream)))
                /\ IF is_answering
                   THEN echoed' = echoed \o content_of(Head(stream))
                   ELSE SubSeq(echoed', 1, Len(echoed) + Len(thinking_of(Head(stream))))
                           = echoed \o thinking_of(Head(stream))]_vars

\* the example stream has been read: the fragment that arrived after the
\* transition is in the accumulator and was not echoed
C13_Witness ==
    /\ stream_pc = "reading"
    /\ consumed = ExampleStream
    /\ is_answering
    /\ reasoning_parts = <<WhySpace, <<"so">>, <<"ignored">>>>
    /\ echoed = <<Banner, ThinkingHeader, "why", " ", "so", AnswerHeader, "yes">>

\* reading the stream raised before the stream was exhausted, and the assembler
\* is past the loop
StreamFailed == stream_pc \in {"finishing", "returned"} /\ stream # <<>>

\* C39: a failure of the reasoning stream part-way through does not lose what was
\* received: when reading the stream raises after k chunks, the assembler still
\* returns, and the returned document holds, under the fixed headings, the
\* reasoning and the answer text accumulated from those k chunks, with the
\* placeholder for a channel that received nothing.
C39_PartialStreamKept ==
    StreamFailed =>
        /\ reasoning_parts = ReasoningFragments(consumed)
        /\ answer_parts = AnswerFragments(consumed)
        /\ stream_pc = "returned" =>
              /\ stream_result.returned
              /\ stream_result.val =
                    Yielded(strip(concat(ReasoningFragments(consumed))),
                            strip(concat(AnswerFragments(consumed))))
              /\ AnswerFragments(consumed) = <<>> =>
                    SubSeq(stream_result.val, Len(stream_result.val), Len(stream_result.val))
                        = NoAnswer
              /\ ReasoningFragments(consumed) = <<>> =>
                    SubSeq(stream_result.val, 3, 3) = NoReasoning

\* the stream raised after two chunks of reasoning, with chunks still to come:
\* the document holds the reasoning of the two and the placeholder for the answer
C39_Witness ==
    /\ StreamFailed
    /\ stream_pc = "returned"
    /\ consumed = <<Reasoning(WhySpace), Reasoning(<<"so">>)>>
    /\ Len(stream) = 2
    /\ stream_result.val =
          <<"### reasoning", "\n\n", "why", " ", "so", "\n\n", "### answer", "\n\n",
            "(no answer)">>

\* the stream raised before any chunk was read: both placeholders
C39_WitnessEmpty ==
    /\ StreamFailed
    /\ consumed = <<>>
    /\ stream_result.returned
    /\ stream_result.val =
          <<"### reasoning", "\n\n", "(no reasoning)", "\n\n", "### answer", "\n\n",
            "(no answer)">>

(***************************************************************************)
(* Specification SpecValidate: the description and memory-analysis step     *)
(* functions called alone, once, with a FunctionRef that may lack a key or  *)
(* carry an empty value.                                                    *)
(***************************************************************************)

\* analyze_memory_param.py: validation, one conversation, extract_json
analyze_memory_param(target, backend) ==
    IF "address" \notin DOMAIN target \/ "func_name" \notin DOMAIN target
    THEN [out |-> Raise("ValueError"), submitted |-> FALSE]
    ELSE [out |-> IF backend.raised THEN Raise("BackendError")
                  ELSE extract_json(backend.responses),
          submitted |-> TRUE]

\* analyze_irp_memory_access.py: validation, one conversation, save_transcript,
\* the sink, extract_markdown
analyze_irp_memory_access(target, context, log, backend, writable) ==
    IF "address" \notin DOMAIN target \/ "func_name" \notin DOMAIN target
    THEN [out |-> Raise("ValueError"), submitted |-> FALSE, log |-> log, sink |-> <<>>]
    ELSE IF backend.raised
    THEN [out |-> Raise("BackendError"), submitted |-> TRUE, log |-> log, sink |-> <<>>]
    ELSE [out |-> extract_markdown(backend.responses),
          submitted |-> TRUE,
          log |-> save_transcript(log, [target |-> target, context |-> context],
                                  writable).log,
          sink |-> save_transcript(log, [target |-> target, context |-> context],
                                   writable).payload]

\* FunctionRefs with the name under the given key: each of the two keys is
\* absent, empty or filled
Refs(name_key) ==
    {[k \in keys |-> IF k = "address" THEN a ELSE n] :
        keys \in SUBSET {"address", name_key}, a \in {"", "0xa"}, n \in {"", "f"}}

\* the store before the call: absent, or holding a record for "f"
StoredFiles ==
    { <<>>,
      <<json_line([name |-> "f", markdown |-> <<"x">>, addresses |-> <<"0xb">>])>> }

\* replies: those of Backends and one that carries a JSON object
ValidateBackends == Backends \cup {BackendYields(<<Msg("assistant", ObjRef)>>)}

InitValidate ==
    /\ cache_file \in StoredFiles
    /\ last_call = [done |-> FALSE]
    /\ first_md = <<>>
    /\ passed = <<>>
    /\ executions = <<>>
    /\ ExtractIdle
    /\ DedupeIdle
    /\ StreamIdle
    /\ pc = "idle"
    /\ attempt = 0
    /\ call = NoCall
    /\ FrameIdle
    /\ RunIdle
    /\ progress = <<>>
    /\ resolved = <<>>
    /\ collected = 0
    /\ log_file = <<EarlierRecord>>

\* what a call leaves behind: the store and the log before it, and its outcome
Called(type, entry, r, file, log) ==
    [done |-> TRUE, type |-> type, entry |-> entry, out |-> r.out,
     submitted |-> r.submitted, file_before |-> file, log_before |-> log]

CallDescribeExternal ==
    /\ ~last_call.done
    /\ \E entry \in Refs("name"), backend \in ValidateBackends :
        /\ cache_file' = describe_external_function(entry, cache_file, backend).file
        /\ last_call' = Called("describe_external_function", entry,
                               describe_external_function(entry, cache_file, backend),
                               cache_file, log_file)
    /\ UNCHANGED <<first_md, passed, executions, extract_vars, dedupe_vars, stream_vars, pc,
                   attempt, call, frame_vars, run_vars, progress, aux_vars>>

CallDescribeInternal ==
    /\ ~last_call.done
    /\ \E entry \in Refs("name"), backend \in ValidateBackends :
        /\ cache_file' = describe_internal_function(entry, cache_file, backend).file
        /\ last_call' = Called("describe_internal_function", entry,
                               describe_internal_function(entry, cache_file, backend),
                               cache_file, log_file)
    /\ UNCHANGED <<first_md, passed, executions, extract_vars, dedupe_vars, stream_vars, pc,
                   attempt, call, frame_vars, run_vars, progress, aux_vars>>

CallAnalyzeMemoryParam ==
    /\ ~last_call.done
    /\ \E target \in Refs("func_name"), backend \in ValidateBackends :
        last_call' = Called("analyze_memory_param", target,
                            analyze_memory_param(target, backend), cache_file, log_file)
    /\ UNCHANGED <<cache_file, first_md, passed, executions, extract_vars, dedupe_vars, stream_vars,
                   pc, attempt, call, frame_vars, run_vars, progress, aux_vars>>

CallAnalyzeIrpMemoryAccess ==
    /\ ~last_call.done
    /\ \E target \in Refs("func_name"), backend \in ValidateBackends, writable \in BOOLEAN :
        /\ log_file' = analyze_irp_memory_access(target, <<"context">>, log_file,
                                                 backend, writable).log
        /\ last_call' = Called("analyze_irp_memory_access", target,
                               analyze_irp_memory_access(target, <<"context">>, log_file,
                                                         backend, writable),
                               cache_file, log_file)
    /\ UNCHANGED <<cache_file, first_md, passed, executions, extract_vars, dedupe_vars, stream_vars,
                   pc, attempt, call, frame_vars, run_vars, progress, resolved,
                   collected>>

NextValidate ==
    \/ CallDescribeExternal
    \/ CallDescribeInternal
    \/ CallAnalyzeMemoryParam
    \/ CallAnalyzeIrpMemoryAccess

SpecValidate == InitValidate /\ [][NextValidate]_vars

-----------------------------------------------------------------------------
(* Properties of step-entry validation (checked under SpecValidate) *)

\* the key under which the step function of the last call expects the name
NameKeyOf(type) ==
    IF type \in {"describe_external_function", "describe_internal_function"}
    THEN "name" ELSE "func_name"

\* the FunctionRef of the last call lacks its address or its name, or holds an
\* empty one
Incomplete ==
    \/ falsy(get(last_call.entry, "address"))
    \/ falsy(get(last_call.entry, NameKeyOf(last_call.type)))

\* C22 (as stated): a description or memory-analysis step called with a
\* FunctionRef whose address or name is absent or empty raises a validation
\* error at once: no conversation is submitted, and the cache and the log are
\* as they were before the call.
C22_ValidationFailsFast ==
    (last_call.done /\ Incomplete) =>
        /\ last_call.out = Raise("ValueError")
        /\ ~last_call.submitted
        /\ cache_file = last_call.file_before
        /\ log_file = last_call.log_before

-----------------------------------------------------------------------------
(* Specification SpecLoad: load_cache on a store with lines of every kind   *)

MaxLines == 3

\* the line left by "\n" alone: stripped to nothing and passed over (line 66)
BlankLine == [valid |-> FALSE, blank |-> TRUE]

\* a line json.loads rejects, such as a record cut off by an interrupted write
BrokenLine == [valid |-> FALSE]

\* lines of a store: records as write_cache leaves them (for "f", for "F",
\* for "g"), a record without a name, a record with an empty name, a blank
\* line, a line that is not JSON, and a line that is JSON but no object
StoreLines ==
    { json_line([name |-> "f", markdown |-> <<"x">>, addresses |-> <<"0xa">>]),
      json_line([name |-> "F", markdown |-> <<"y">>, addresses |-> <<"0xA">>]),
      json_line([name |-> "g", markdown |-> <<"x">>, addresses |-> <<>>]),
      json_line([markdown |-> <<"x">>, addresses |-> <<>>]),
      json_line([name |-> "", markdown |-> <<"x">>, addresses |-> <<>>]),
      BlankLine,
      BrokenLine,
      json_line([scalar |-> 1]) }

InitLoad ==
    /\ cache_file \in SeqsUpTo(StoreLines, MaxLines)
    /\ last_call = [done |-> FALSE]
    /\ first_md = <<>>
    /\ passed = <<>>
    /\ executions = <<>>
    /\ ExtractIdle
    /\ DedupeIdle
    /\ StreamIdle
    /\ PipelineIdle

\* one load of the store
LoadCache ==
    /\ ~last_call.done
    /\ last_call' = [done |-> TRUE,
                     out |-> IF load_cache_fails(cache_file)
                             THEN Raise("AttributeError")
                             ELSE Return(load_cache(cache_file))]
    /\ UNCHANGED <<cache_file, first_md, passed, executions, extract_vars, dedupe_vars, stream_vars,
                   pipeline_vars>>

NextLoad == LoadCache

SpecLoad == InitLoad /\ [][NextLoad]_vars

-----------------------------------------------------------------------------
(* Properties of load_cache (checked under SpecLoad) *)

\* the line parses as a record: a JSON object
ParsesAsRecord(line) == line.valid /\ is_dict(line.record)

CarriesName(line) == ParsesAsRecord(line) /\ ~falsy(get(line.record, "name"))

\* the last line of the store that carries the name key
LastWith(file, key) ==
    file[Max({i \in 1..Len(file) :
                CarriesName(file[i]) /\ lower(file[i].record.name) = key})]

\* the mapping holds, under each lowercased name carried by a line of the store,
\* the record of the last such line, and nothing else
LoadedFrom(cache, file) ==
    /\ \A i \in 1..Len(file) :
          CarriesName(file[i]) =>
              /\ od_has(cache, lower(file[i].record.name))
              /\ od_get(cache, lower(file[i].record.name))
                    = LastWith(file, lower(file[i].record.name)).record
    /\ \A k \in 1..Len(cache) :
          \E i \in 1..Len(file) :
              CarriesName(file[i]) /\ lower(file[i].record.name) = cache[k].key

\* C26: loading never fails on a corrupt store: every line that does not parse
\* as a record is skipped, every parseable line that carries a name is loaded
\* under its lowercased name, and the mapping is the one the store gives
\* without its corrupt lines.
C26_LoadNeverFails ==
    last_call.done =>
        /\ ~last_call.out.raised
        /\ LoadedFrom(last_call.out.val, cache_file)
        /\ last_call.out.val = load_cache(SelectSeq(cache_file, ParsesAsRecord))

\* what holds of every store none of whose lines is JSON without being an
\* object: blank lines, lines that are not JSON and records without a name are
\* passed over
LoadSkipsUnparseable ==
    (last_call.done /\ \A i \in 1..Len(cache_file) :
                          cache_file[i].valid => is_dict(cache_file[i].record)) =>
        /\ ~last_call.out.raised
        /\ LoadedFrom(last_call.out.val, cache_file)
        /\ last_call.out.val = load_cache(SelectSeq(cache_file, ParsesAsRecord))

\* a store with a broken line between two records of one name was loaded
LoadSkipsUnparseable_Witness ==
    /\ last_call.done
    /\ ~last_call.out.raised
    /\ Len(cache_file) = 3
    /\ cache_file[2] = BrokenLine
    /\ Len(last_call.out.val) = 1
    /\ last_call.out.val[1].record.name = "F"

-----------------------------------------------------------------------------
(* Specification SpecRace: executions of describe_external_function that     *)
(* share one store.  An execution loads the store (load_cache, line 116),    *)
(* holds its own mapping while it looks the name up and, on a miss, talks    *)
(* to the backend (lines 117-135), and then rewrites the whole store from    *)
(* that mapping (cache_update and write_cache, lines 120 and 136).  The two  *)
(* steps of different executions may interleave.                             *)

MaxExecutions == 2

Executions == 1..MaxExecutions

\* the FunctionRefs of the executions: complete ones
RaceEntries == {[address |-> a, name |-> n] : a \in {"0xa", "0xb"}, n \in {"f", "F", "g"}}

InitRace ==
    /\ cache_file \in StoredFiles
    /\ executions \in [Executions ->
                         {[pc |-> "start", entry |-> e, cache |-> <<>>, md |-> <<>>,
                           wrote |-> FALSE, overlap |-> FALSE] : e \in RaceEntries}]
    /\ last_call = [done |-> FALSE]
    /\ first_md = <<>>
    /\ passed = <<>>
    /\ ExtractIdle
    /\ DedupeIdle
    /\ StreamIdle
    /\ PipelineIdle

\* another execution is between its load and its rewrite
OtherHoldsMapping(p) == \E q \in Executions \ {p} : executions[q].pc = "loaded"

\* describe_external_function up to the lookup: load_cache and cache_lookup.  A
\* hit whose address is recorded already returns at once; otherwise the
\* execution goes on with the mapping it loaded
LoadStore(p) ==
    /\ executions[p].pc = "start"
    /\ LET e == executions[p].entry
           cache == load_cache(cache_file)
           cached == cache_lookup(cache, e.name)
           known == cached.found /\ e.address \in Range(cached.record.addresses)
       IN  executions' =
             [executions EXCEPT ![p] =
                [@ EXCEPT !.pc = IF known THEN "done" ELSE "loaded",
                          !.cache = cache,
                          !.md = IF cached.found THEN cached.record.markdown ELSE <<>>,
                          !.overlap = OtherHoldsMapping(p)]]
    /\ UNCHANGED <<cache_file, last_call, first_md, passed, extract_vars, dedupe_vars,
                   stream_vars, pipeline_vars>>

\* the rest of describe_external_function: on a hit cache_update with the
\* cached markdown, on a miss the conversation and, if it gave a description,
\* cache_update with it; cache_update rewrites the store from the mapping the
\* execution loaded
RewriteStore(p) ==
    /\ executions[p].pc = "loaded"
    /\ LET x == executions[p]
           hit == cache_lookup(x.cache, x.entry.name).found
       IN  \E backend \in {BackendRaises, BackendYields(<<Msg("assistant", <<"x">>)>>)} :
             LET md == IF hit THEN Return(x.md) ELSE describe_by_backend(backend)
             IN  /\ hit => ~backend.raised
                 /\ IF md.raised
                    THEN /\ executions' = [executions EXCEPT ![p] = [@ EXCEPT !.pc = "done"]]
                         /\ UNCHANGED cache_file
                    ELSE /\ cache_file' =
                              write_cache(cache_update(x.cache, x.entry.name, md.val,
                                                       x.entry.address))
                         /\ executions' =
                              [executions EXCEPT ![p] =
                                 [@ EXCEPT !.pc = "done", !.md = md.val, !.wrote = TRUE]]
    /\ UNCHANGED <<last_call, first_md, passed, extract_vars, dedupe_vars, stream_vars,
                   pipeline_vars>>

NextRace ==
    \/ \E p \in Executions : LoadStore(p)
    \/ \E p \in Executions : RewriteStore(p)

SpecRace == InitRace /\ [][NextRace]_vars

-----------------------------------------------------------------------------
(* Properties of concurrent descriptions (checked under SpecRace) *)

\* the persisted store holds a record under the name of execution p, with the
\* address of p among its addresses
Persisted(p) ==
    \E i \in 1..Len(cache_file) :
        /\ lower(cache_file[i].record.name) = lower(executions[p].entry.name)
        /\ executions[p].entry.address \in Range(cache_file[i].record.addresses)

\* execution p rewrote the store and what it wrote is missing from the store
UpdateLost(p) ==
    /\ executions[p].pc = "done"
    /\ executions[p].wrote
    /\ ~Persisted(p)

\* some execution loaded the store while another one held a mapping it had
\* still to write
Interleaved == \E p \in Executions : executions[p].overlap

\* C27: the load, modify, full-rewrite cycle is safe only under sequential
\* execution.  An update is lost only if executions interleaved: as long as
\* every execution loads the store after the rewrites of the ones before it,
\* the record and the address each of them wrote stay in the store.  (That an
\* update is lost when two executions interleave is the state of C27_Witness.)
C27_LostOnlyIfInterleaved ==
    \A p \in Executions : UpdateLost(p) => Interleaved

\* two executions for different names loaded the empty store one after the
\* other, before either rewrote it; both rewrote it, and the record of the
\* first one is missing from the store
C27_Witness ==
    /\ \A p \in Executions : executions[p].pc = "done" /\ executions[p].wrote
    /\ Interleaved
    /\ executions[1].entry.name = "f"
    /\ executions[2].entry.name = "g"
    /\ UpdateLost(1)
    /\ Persisted(2)

\* executions one after the other, for one name at two addresses: both
\* addresses are in the store
C27_WitnessSequential ==
    /\ \A p \in Executions : executions[p].pc = "done" /\ executions[p].wrote
    /\ ~Interleaved
    /\ executions[1].entry = [address |-> "0xa", name |-> "g"]
    /\ executions[2].entry = [address |-> "0xb", name |-> "g"]
    /\ \A p \in Executions : Persisted(p)

====
